---- MODULE Spec2Model ----
(***************************************************************************)
(* AI Privacy Guard, frontend.  A model of the region editor of            *)
(* PreviewPanel (PreviewCanvas gestures, toggle / add / delete, the        *)
(* preview composite and the download composite), of ReviewPanel, and of   *)
(* the Home page's process request.                                        *)
(*                                                                         *)
(* Images are pixel grids.  A pixel value records where the pixel comes    *)
(* from: the original image, the processed image (obscured by the          *)
(* backend), or an overlay painted by the frontend on top of it.           *)
(* Coordinates of the pointer are CSS pixels of the canvas' bounding       *)
(* rectangle; image coordinates are CSS coordinates times                  *)
(* canvas.width / rect.width, kept exact as a fraction n / k.              *)
(***************************************************************************)
EXTENDS Integers, Sequences, FiniteSets, TLC

\* ------------------------------------------------------------------ bounds
\* Width and height of the processed image (= canvas.width, canvas.height).
ImgW == 12
ImgH == 11
\* Most regions an image is driven to hold, the deleted ones counted, and
\* longest deleted list.
MaxDetections == 3
MaxDeleted == 1
\* Most 100 ms download timers of ReviewPanel pending at once.
MaxPendingDownloads == 2
\* Largest number of CSS pixels per image pixel in the drag study.
MaxDragScale == 3
\* Most files Home is driven to hold, and most process requests in flight.
MaxFilesHeld == 2
MaxInFlight == 1
\* Most process requests on their way in a session with 'Start Over'.
MaxRequests == 2
\* Farthest a rectangle of the padding study starts outside the image.
MaxPadReach == 7

\* ------------------------------------------------------- program constants
\* handlePointerUp: a drag adds a region when width >= 10 && height >= 10.
MinAddSize == 10
\* handlePointerMove: Math.hypot(dx, dy) > 4 starts a drag.
DragThreshold == 4
\* drawCanvas / renderCompositeDataUrl: getPaddedRect(det, w, h, 6).
DeletedPad == 6
\* addDetection: confidence: 1 (kept in percent).
ManualConfidence == 100
\* QuotaRequestModal: 'Get 5 Extra Batches'.
ExtraBatches == 5

BlurModes == {"gaussian", "pixelation", "emoji"}
\* The glyphs the caller can select (ControlPanel's emoji picker); the first
\* is Home's default.
Emojis == {"U+1F600", "U+1F512"}
\* Slider positions of blur_intensity (max 100, Home's default 80).
Intensities == {80, 100}

Pixels == (0 .. ImgW - 1) \X (0 .. ImgH - 1)

Min(a, b) == IF a <= b THEN a ELSE b
Max(a, b) == IF a >= b THEN a ELSE b

\* Math.floor(n / k) + 1 in the place of Math.round.
MathRound_FloorPlusOne(n, k) == (n \div k) + 1

\* Math.round of the fraction n / k (k > 0): the nearest integer, halves up.
MathRound(n, k) == (2 * n + k) \div (2 * k)

\* ------------------------------------------------------------ pixel values
\* src: which image the pixel was copied from; gray: opacity (per mille) of
\* the grey fill blended over it; glyph: what was painted opaquely over it.
OriginalPixel == [src |-> "original", gray |-> 0, glyph |-> ""]
ObscuredPixel == [src |-> "obscured", gray |-> 0, glyph |-> ""]
BlankPixel == [src |-> "blank", gray |-> 0, glyph |-> ""]

\* ctx.fillRect with fillStyle rgba(128, 128, 128, alpha): source-over blend.
BlendGray(v, alpha) ==
  [v EXCEPT !.gray = alpha + ((1000 - alpha) * v.gray) \div 1000]

\* An opaque paint (fill / stroke / fillText with an opaque style) replaces
\* what was under it.
Paint(v, what) == [src |-> "paint", gray |-> 0, glyph |-> what]

\* A pixel shows the original image when it is a copy of the original with
\* nothing painted or blended over it.
ShowsOriginal(v) == v = OriginalPixel

\* The pixels a drawImage / fillRect of the rectangle (x, y, width, height)
\* writes: the pixel grid cells inside it.
InRect(p, r) ==
  /\ r.x <= p[1] /\ p[1] < r.x + r.width
  /\ r.y <= p[2] /\ p[2] < r.y + r.height

Rect(d) == [x |-> d.x, y |-> d.y, width |-> d.width, height |-> d.height]

\* An image (a decoded data URL): its size and its pixels.
ImageOf(pixels) == [width |-> ImgW, height |-> ImgH, pixels |-> pixels]

OriginalImage == ImageOf([p \in Pixels |-> OriginalPixel])

\* The processed image the backend returns for a detection list: every
\* detection rectangle obscured, every other pixel as in the original.
ProcessedImage(dets) ==
  ImageOf([p \in Pixels |->
    IF \E i \in 1 .. Len(dets) : InRect(p, Rect(dets[i]))
    THEN ObscuredPixel ELSE OriginalPixel])

\* ctx.drawImage(image, r.x, r.y, r.width, r.height, r.x, r.y, r.width,
\* r.height): copies the rectangle r of image to the same place.
DrawImage(canvas, image, r) ==
  [p \in Pixels |-> IF InRect(p, r) THEN image.pixels[p] ELSE canvas[p]]

\* ------------------------------------------------------------- the scene
\* The detections the backend returned for the image: one face, enabled.
SceneDetections ==
  <<[id |-> "f0", x |-> 0, y |-> 0, width |-> 4, height |-> 4,
     confidence |-> 95, detection_type |-> "face", enabled |-> TRUE]>>

\* The two data URLs of the result, and the images they decode to.
OriginalUrl == "data:image/jpeg;base64,original"
ProcessedUrl == "data:image/jpeg;base64,processed"
SceneProcessedImage == ProcessedImage(SceneDetections)

\* new Image(); img.src = url; onload: the decoded image.
LoadImage(url) ==
  IF url = OriginalUrl THEN OriginalImage
  ELSE IF url = ProcessedUrl THEN SceneProcessedImage
  ELSE ImageOf([p \in Pixels |-> BlankPixel])

SceneResult ==
  [image_id |-> "img1",
   original_filename |-> "photo.jpg",
   original_image_base64 |-> OriginalUrl,
   processed_image_base64 |-> ProcessedUrl,
   detections |-> SceneDetections]

\* --------------------------------------------------- PreviewPanel: drawing
\* det.id?.startsWith("manual_")
IsManualId(id) == Len(id) >= 7 /\ SubSeq(id, 1, 7) = "manual_"

\* The face drawManualOverlay draws in emoji mode: a filled and stroked
\* circle of radius min(width, height) / 2 around the centre of det, eyes
\* and mouth inside it.  A pixel is painted when its centre lies within
\* radius + lineWidth / 2 of the centre (all lengths doubled).
SmileyFace == "smiley"

InSmiley(p, det) ==
  LET s == Min(det.width, det.height)
      lw == Max(2, s \div 24)
      dx == 2 * p[1] + 1 - 2 * det.x - det.width
      dy == 2 * p[2] + 1 - 2 * det.y - det.height
  IN dx * dx + dy * dy <= (s + lw) * (s + lw)

\* alpha = Math.min(0.9, 0.3 + blurIntensity / 200), per mille.
ManualAlpha(blurIntensity) == Min(900, 300 + 5 * blurIntensity)

drawManualOverlay(canvas, det, blurMode, blurIntensity, emoji) ==
  IF det.width <= 0 \/ det.height <= 0 THEN canvas
  ELSE IF blurMode = "emoji"
  THEN [p \in Pixels |->
         IF InSmiley(p, det) THEN Paint(canvas[p], SmileyFace) ELSE canvas[p]]
  ELSE [p \in Pixels |->
         IF InRect(p, Rect(det))
         THEN BlendGray(canvas[p], ManualAlpha(blurIntensity))
         ELSE canvas[p]]

\* getPaddedRect without the clipping.
getPaddedRect_NoClip(det, maxW, maxH, pad) ==
  [x |-> det.x - pad, y |-> det.y - pad, width |-> det.width + 2 * pad,
   height |-> det.height + 2 * pad]

getPaddedRect(det, maxW, maxH, pad) ==
  LET x1 == Max(0, det.x - pad)
      y1 == Max(0, det.y - pad)
      x2 == Min(maxW, det.x + det.width + pad)
      y2 == Min(maxH, det.y + det.height + pad)
  IN [x |-> x1, y |-> y1, width |-> x2 - x1, height |-> y2 - y1]

\* result.detections.forEach: enabled manual regions get their overlay.
RECURSIVE ManualOverlayPass(_, _, _, _, _, _)
ManualOverlayPass(canvas, dets, i, blurMode, blurIntensity, emoji) ==
  IF i > Len(dets) THEN canvas
  ELSE ManualOverlayPass(
         IF dets[i].enabled /\ IsManualId(dets[i].id)
         THEN drawManualOverlay(canvas, dets[i], blurMode, blurIntensity, emoji)
         ELSE canvas,
         dets, i + 1, blurMode, blurIntensity, emoji)

\* deletedDetections.forEach: the padded rectangle is copied from the original.
RECURSIVE RestoreDeletedPass(_, _, _, _)
RestoreDeletedPass(canvas, original, deleted, i) ==
  IF i > Len(deleted) THEN canvas
  ELSE RestoreDeletedPass(
         DrawImage(canvas, original,
                   getPaddedRect(deleted[i], original.width, original.height,
                                 DeletedPad)),
         original, deleted, i + 1)

\* result.detections.forEach: a disabled region is copied from the original.
RECURSIVE RestoreDisabledPass(_, _, _, _)
RestoreDisabledPass(canvas, original, dets, i) ==
  IF i > Len(dets) THEN canvas
  ELSE RestoreDisabledPass(
         IF dets[i].enabled THEN canvas
         ELSE DrawImage(canvas, original, Rect(dets[i])),
         original, dets, i + 1)

\* drawCanvas without its last pass: disabled regions are not copied back
\* from the original.
drawCanvas_NoRestore(result, deleted, showOrig, blurMode, blurIntensity, emoji) ==
  LET original == LoadImage(result.original_image_base64)
      processed == LoadImage(result.processed_image_base64)
  IN IF showOrig THEN original.pixels
     ELSE RestoreDeletedPass(
            ManualOverlayPass(processed.pixels, result.detections, 1,
                              blurMode, blurIntensity, emoji),
            original, deleted, 1)

\* PreviewCanvas.drawCanvas; originalRef and processedRef are loaded and
\* the canvas has the size of the processed image.
drawCanvas(result, deleted, showOrig, blurMode, blurIntensity, emoji) ==
  LET original == LoadImage(result.original_image_base64)
      processed == LoadImage(result.processed_image_base64)
  IN IF showOrig THEN DrawImage([p \in Pixels |-> BlankPixel], original,
                                [x |-> 0, y |-> 0, width |-> original.width,
                                 height |-> original.height])
     ELSE RestoreDisabledPass(
            RestoreDeletedPass(
              ManualOverlayPass(processed.pixels, result.detections, 1,
                                blurMode, blurIntensity, emoji),
              original, deleted, 1),
            original, result.detections, 1)

\* renderCompositeDataUrl that hands out the processed image as the backend
\* sent it, as the ZIP of the panel in QuotaRequestModal.tsx does.
renderCompositeDataUrl_ProcessedOnly(result, deleted, blurMode, blurIntensity, emoji) ==
  LoadImage(result.processed_image_base64)

\* renderCompositeDataUrl(result): showOriginal defaults to false; it draws
\* on a canvas of its own and returns canvas.toDataURL("image/png").
renderCompositeDataUrl(result, deleted, blurMode, blurIntensity, emoji) ==
  LET original == LoadImage(result.original_image_base64)
      processed == LoadImage(result.processed_image_base64)
      c0 == DrawImage([p \in Pixels |-> BlankPixel], processed,
                      [x |-> 0, y |-> 0, width |-> processed.width,
                       height |-> processed.height])
      c1 == ManualOverlayPass(c0, result.detections, 1,
                              blurMode, blurIntensity, emoji)
      c2 == RestoreDeletedPass(c1, original, deleted, 1)
      c3 == RestoreDisabledPass(c2, original, result.detections, 1)
  IN ImageOf(c3)

\* -------------------------------------------------- PreviewPanel: handlers
\* A missing id (the API's BoundingBox has none) is the empty string, falsy
\* like undefined.
NoId == ""

IndexOfImage(rs, imageId) ==
  CHOOSE i \in 1 .. Len(rs) : rs[i].image_id = imageId

\* toggleDetection that builds the flipped region anew, as addDetection
\* does, with confidence 1.
toggleDetection_Rebuilds(rs, imageId, detectionId, detectionIndex) ==
  [i \in 1 .. Len(rs) |->
    IF rs[i].image_id = imageId
    THEN [rs[i] EXCEPT !.detections =
           [k \in 1 .. Len(rs[i].detections) |->
             LET d == rs[i].detections[k]
             IN IF (detectionId # NoId /\ d.id = detectionId)
                   \/ (detectionId = NoId /\ k = detectionIndex)
                THEN [d EXCEPT !.enabled = ~d.enabled,
                               !.confidence = ManualConfidence]
                ELSE d]]
    ELSE rs[i]]

\* toggleDetection(imageId, detectionId, detectionIndex); detectionIndex
\* counts from 1 here.
toggleDetection(rs, imageId, detectionId, detectionIndex) ==
  [i \in 1 .. Len(rs) |->
    IF rs[i].image_id = imageId
    THEN [rs[i] EXCEPT !.detections =
           [k \in 1 .. Len(rs[i].detections) |->
             LET d == rs[i].detections[k]
             IN IF detectionId # NoId
                THEN IF d.id = detectionId
                     THEN [d EXCEPT !.enabled = ~d.enabled] ELSE d
                ELSE IF k = detectionIndex
                     THEN [d EXCEPT !.enabled = ~d.enabled] ELSE d]]
    ELSE rs[i]]

\* `manual_${detectionType}_${Date.now()}_${Math.random().toString(36).slice(2, 7)}`
ManualId(detectionType, now, rnd) ==
  "manual_" \o detectionType \o "_" \o ToString(now) \o "_" \o rnd

addDetection(rs, imageId, bbox, detectionType, now, rnd) ==
  [i \in 1 .. Len(rs) |->
    IF rs[i].image_id = imageId
    THEN [rs[i] EXCEPT !.detections =
           Append(rs[i].detections,
                  [id |-> ManualId(detectionType, now, rnd),
                   x |-> bbox.x, y |-> bbox.y,
                   width |-> bbox.width, height |-> bbox.height,
                   confidence |-> ManualConfidence,
                   detection_type |-> detectionType,
                   enabled |-> TRUE])]
    ELSE rs[i]]

\* r.detections.filter: the list without the target (by index when
\* detectionIndex >= 0, the canvas always passes one; by id otherwise).
RemoveFrom(dets, detectionId, detectionIndex) ==
  LET keep == {k \in 1 .. Len(dets) :
                 IF detectionIndex >= 1 THEN k # detectionIndex
                 ELSE dets[k].id # detectionId}
      F[k \in 0 .. Len(dets)] ==
        IF k = 0 THEN <<>>
        ELSE IF k \in keep THEN Append(F[k - 1], dets[k]) ELSE F[k - 1]
  IN F[Len(dets)]

\* The target removeDetection pushes on deletedDetections[imageId]: a list
\* of none or one region.
RemoveTarget(dets, detectionId, detectionIndex) ==
  IF detectionIndex >= 1
  THEN IF detectionIndex <= Len(dets) THEN <<dets[detectionIndex]>> ELSE <<>>
  ELSE LET hits == {k \in 1 .. Len(dets) : dets[k].id = detectionId}
       IN IF hits = {} THEN <<>>
          ELSE <<dets[CHOOSE k \in hits : \A j \in hits : k <= j]>>

\* removeDetection that also bakes the composite in: the result's original
\* is replaced by its processed image.
removeDetection_DropsOriginal(rs, imageId, detectionId, detectionIndex) ==
  [i \in 1 .. Len(rs) |->
    IF rs[i].image_id = imageId
    THEN [rs[i] EXCEPT !.detections =
                         RemoveFrom(rs[i].detections, detectionId,
                                    detectionIndex),
                       !.original_image_base64 = rs[i].processed_image_base64]
    ELSE rs[i]]

\* removeDetection: the new results (computed from the results the handler
\* closed over).
removeDetection(rs, imageId, detectionId, detectionIndex) ==
  [i \in 1 .. Len(rs) |->
    IF rs[i].image_id = imageId
    THEN [rs[i] EXCEPT !.detections =
           RemoveFrom(rs[i].detections, detectionId, detectionIndex)]
    ELSE rs[i]]

\* removeDetection: setDeletedDetections(prev => ...), on the current list.
removeDetectionDeleted(prevDeleted, rs, imageId, detectionId, detectionIndex) ==
  IF \E i \in 1 .. Len(rs) : rs[i].image_id = imageId
  THEN [prevDeleted EXCEPT ![imageId] =
         prevDeleted[imageId] \o
         RemoveTarget(rs[IndexOfImage(rs, imageId)].detections,
                      detectionId, detectionIndex)]
  ELSE prevDeleted

\* ------------------------------------------------ PreviewCanvas: gestures
\* canvas.getBoundingClientRect() of a canvas shown at two CSS pixels per
\* image pixel.
CanvasRect == [width |-> 2 * ImgW, height |-> 2 * ImgH]

\* result.detections.findIndex at the CSS point (cssX, cssY): the first
\* region whose closed rectangle holds the image point, 0 for none.
\* clickX = cssX * canvas.width / rect.width, compared exactly.
HitIndex(dets, cssX, cssY, rect) ==
  LET hits == {k \in 1 .. Len(dets) :
                 /\ cssX * ImgW >= dets[k].x * rect.width
                 /\ cssX * ImgW <= (dets[k].x + dets[k].width) * rect.width
                 /\ cssY * ImgH >= dets[k].y * rect.height
                 /\ cssY * ImgH <= (dets[k].y + dets[k].height) * rect.height}
  IN IF hits = {} THEN 0 ELSE CHOOSE k \in hits : \A j \in hits : k <= j

\* handlePointerUp, drag branch: the box of a drag from start to end, or
\* none when it is smaller than 10 image pixels in a dimension.
DragBox(start, end, rect) ==
  LET nx1 == Min(start[1], end[1]) * ImgW
      ny1 == Min(start[2], end[2]) * ImgH
      nw == (Max(start[1], end[1]) - Min(start[1], end[1])) * ImgW
      nh == (Max(start[2], end[2]) - Min(start[2], end[2])) * ImgH
  IN IF nw >= MinAddSize * rect.width /\ nh >= MinAddSize * rect.height
     THEN <<[x |-> MathRound(nx1, rect.width),
             y |-> MathRound(ny1, rect.height),
             width |-> MathRound(nw, rect.width),
             height |-> MathRound(nh, rect.height)]>>
     ELSE <<>>

\* Math.hypot(dx, dy) > 4
MovedFar(a, b) ==
  (b[1] - a[1]) * (b[1] - a[1]) + (b[2] - a[2]) * (b[2] - a[2])
    > DragThreshold * DragThreshold

\* ---------------------------------------------------- ReviewPanel: drawing
\* The result ReviewPanel is mounted on: a face and a plate that overlap it
\* (regions of different types may overlap), both enabled.
ReviewResult ==
  [image_id |-> "img2",
   original_filename |-> "street.jpg",
   original_image_base64 |-> OriginalUrl,
   processed_image_base64 |-> ProcessedUrl,
   detections |->
     <<[id |-> "f1", x |-> 1, y |-> 1, width |-> 4, height |-> 4,
        confidence |-> 95, detection_type |-> "face", enabled |-> TRUE],
       [id |-> "p1", x |-> 3, y |-> 3, width |-> 4, height |-> 3,
        confidence |-> 80, detection_type |-> "license_plate",
        enabled |-> TRUE]>>]

\* fillStyle rgba(128, 128, 128, 0.8), per mille.
ReviewAlpha == 800
\* ctx.lineWidth = 3
BorderWidth == 3
\* ctx.fillRect(x, y - 24, 70, 24)
LabelWidth == 70
LabelHeight == 24

\* ctx.fillText(emoji, x + width / 2, y + height / 2) at font size
\* min(width, height), centred: the glyph's box is the centred square of
\* that side (coordinates doubled).
InGlyphBox(p, det) ==
  LET size == Min(det.width, det.height)
      cx == 2 * det.x + det.width
      cy == 2 * det.y + det.height
  IN /\ cx - size < 2 * p[1] + 2 /\ 2 * p[1] < cx + size
     /\ cy - size < 2 * p[2] + 2 /\ 2 * p[2] < cy + size

\* ctx.strokeRect(x, y, width, height): the band of BorderWidth centred on
\* the outline (coordinates doubled).  The gaps of the dash pattern [5, 5]
\* of a disabled region are not resolved: the whole band counts as painted.
InBorder(p, det) ==
  LET x2 == 2 * det.x
      y2 == 2 * det.y
      w2 == 2 * det.width
      h2 == 2 * det.height
  IN /\ 2 * p[1] + 2 > x2 - BorderWidth /\ 2 * p[1] < x2 + w2 + BorderWidth
     /\ 2 * p[2] + 2 > y2 - BorderWidth /\ 2 * p[2] < y2 + h2 + BorderWidth
     /\ ~(/\ 2 * p[1] >= x2 + BorderWidth
          /\ 2 * p[1] + 2 <= x2 + w2 - BorderWidth
          /\ 2 * p[2] >= y2 + BorderWidth
          /\ 2 * p[2] + 2 <= y2 + h2 - BorderWidth)

InLabel(p, det) ==
  InRect(p, [x |-> det.x, y |-> det.y - LabelHeight, width |-> LabelWidth,
             height |-> LabelHeight])

\* detections.forEach: the overlay of every enabled detection.
RECURSIVE ReviewOverlayPass(_, _, _, _, _)
ReviewOverlayPass(cv, dets, i, blurMode, emoji) ==
  IF i > Len(dets) THEN cv
  ELSE ReviewOverlayPass(
         IF ~dets[i].enabled THEN cv
         ELSE IF blurMode \in {"gaussian", "pixelation"}
         THEN [p \in Pixels |->
                IF InRect(p, Rect(dets[i])) THEN BlendGray(cv[p], ReviewAlpha)
                ELSE cv[p]]
         ELSE IF blurMode = "emoji"
         THEN [p \in Pixels |->
                IF InGlyphBox(p, dets[i]) THEN Paint(cv[p], emoji) ELSE cv[p]]
         ELSE cv,
         dets, i + 1, blurMode, emoji)

\* if (editMode) detections.forEach: border and label of every detection.
RECURSIVE EditOverlayPass(_, _, _)
EditOverlayPass(cv, dets, i) ==
  IF i > Len(dets) THEN cv
  ELSE EditOverlayPass(
         [p \in Pixels |->
           IF InLabel(p, dets[i])
           THEN Paint(cv[p], IF dets[i].enabled THEN "label ON"
                                                ELSE "label OFF")
           ELSE IF InBorder(p, dets[i])
           THEN Paint(cv[p], IF dets[i].enabled THEN "border"
                                                ELSE "border dashed")
           ELSE cv[p]],
         dets, i + 1)

\* ReviewPanel.drawCanvas; imageRef is loaded.
ReviewPanel_drawCanvas(result, dets, showOrig, edit, blurMode, emoji) ==
  LET img == LoadImage(result.original_image_base64)
      c0 == img.pixels
      c1 == ReviewOverlayPass(c0, dets, 1, blurMode, emoji)
  IN IF showOrig THEN c0
     ELSE IF edit THEN EditOverlayPass(c1, dets, 1)
     ELSE c1

\* ------------------------------------------------------------------ state
VARIABLES
  results,             \* PreviewPanel's results prop (Home's state)
  deletedDetections,   \* image_id -> the regions removed from that image
  showOriginal,        \* image_id -> BOOLEAN
  editMode,            \* image_id -> BOOLEAN
  blurConfig,          \* the blurMode, blurIntensity and emoji props
  showDownloadSummary, \* <<>> or <<the result the summary modal shows>>
  canvas,              \* image_id -> the pixels of that PreviewCanvas
  pointer,             \* image_id -> the gesture state of that PreviewCanvas
  download,            \* <<>> or <<the file the last step handed to the browser>>
  mounted,             \* the panel the page shows: PreviewPanel or ReviewPanel
  detections,          \* ReviewPanel: its own copy of result.detections
  reviewEditMode,      \* ReviewPanel: editMode
  reviewShowOriginal,  \* ReviewPanel: showOriginal
  showConfirmDownload, \* ReviewPanel: the confirm modal is open
  reviewCanvas,        \* ReviewPanel: the pixels of its canvas
  downloadTimers,      \* ReviewPanel: pending 100 ms timers of downloadImage
  reported,            \* ReviewPanel: <<>> or <<last list given to onDetectionsChange>>
  dragInput,           \* drag study: <<>> or <<[start, end, rect]>> of one drag
  dragStored,          \* drag study: <<>> or the results after that drag
  runs,                \* twin study: <<>> or the two runs' region state
  files,               \* Home: the selected files
  controls,            \* Home: blurMode, blurIntensity, detectFaces, ...
  homeResults,         \* Home: results
  processMutation,     \* Home: the status of processMutation
  uploadErrors,        \* UploadZone: errors
  network,             \* Home: requests and responses in flight
  served,              \* what the backend did for the response in flight
  padInput,            \* padding study: <<>> or <<[det, maxW, maxH, pad]>>
  padResult,           \* padding study: <<>> or <<the rectangle returned>>
  pipeInput,           \* pipeline study: <<>> or <<one invocation's input>>
  pipeResult,          \* pipeline study: <<>> or <<what the invocation returned>>
  panelResults,        \* archive study: the results prop of PreviewPanel.tsx
  panelEditMode,       \* archive study: editMode, image_id -> BOOLEAN
  panelSummary,        \* archive study: showDownloadSummary
  downloadingZip,      \* archive study: downloadingZip
  zipBuild,            \* archive study: <<>> or <<the handleDownloadAll running>>
  exported,            \* archive study: <<>> or <<the file the last step saved>>
  toggleInput,         \* toggle study: <<>> or <<the results and the click>>
  toggleResult,        \* toggle study: <<>> or <<the results after the click>>
  quotaData,           \* Home: quotaQuery.data, <<>> while not loaded
  quotaModal,          \* Home's quotaModalOpen and QuotaRequestModal's state
  quotaNet,            \* requestExtraQuota calls and their outcomes in flight
  feedback,            \* Home's feedbackModalOpen, feedbackImageId and
                       \* FeedbackModal's state
  feedbackNet,         \* submitFeedback calls and their outcomes in flight
  feedbackTimers       \* FeedbackModal: pending 2 s timers of handleSubmit

previewVars == <<results, deletedDetections, showOriginal, editMode,
                 showDownloadSummary, canvas, pointer>>
reviewVars == <<detections, reviewEditMode, reviewShowOriginal,
                showConfirmDownload, reviewCanvas, downloadTimers, reported>>
dragVars == <<dragInput, dragStored>>
twinVars == <<runs>>
zipVars == <<panelResults, panelEditMode, panelSummary, downloadingZip,
             zipBuild, exported>>
toggleVars == <<toggleInput, toggleResult>>
modalVars == <<quotaModal, quotaNet, feedback, feedbackNet, feedbackTimers>>
sideVars == <<zipVars, toggleVars, quotaData, modalVars>>
studyVars == <<padInput, padResult, pipeInput, pipeResult, sideVars>>
homeVars == <<files, controls, homeResults, processMutation, uploadErrors,
              network, served>>
\* Which panel is mounted, and the state outside the two panels.
pageVars == <<mounted, dragVars, twinVars, studyVars, homeVars>>
vars == <<previewVars, reviewVars, blurConfig, download, pageVars>>

\* The settings the panel is driven with: Home's defaults and an emoji mode.
DefaultBlurConfig ==
  [blurMode |-> "gaussian", blurIntensity |-> 80, emoji |-> "U+1F600"]
BlurConfigs ==
  {DefaultBlurConfig,
   [blurMode |-> "emoji", blurIntensity |-> 0, emoji |-> "U+1F512"]}

\* What Date.now() and Math.random().toString(36).slice(2, 7) return in an
\* addDetection call.
IdEntropy ==
  {[now |-> 1000, rnd |-> "k3x9q"], [now |-> 1001, rnd |-> "p07zd"]}

\* The CSS points the pointer visits, inside the canvas rectangle.
\* The first two lie on the face, less than 4 px apart; a drag from the
\* first to the third spans 11 x 10 image pixels, from the second 10 x 9.
PointOnFace == <<1, 1>>
PointNearby == <<3, 3>>
PointBottomRight == <<23, 21>>
GesturePoints == {PointOnFace, PointNearby, PointBottomRight}

ImageIds == {"img1"}

ResultOf(rs, imageId) == rs[IndexOfImage(rs, imageId)]

IdlePointer ==
  [dragStart |-> <<>>, dragCurrent |-> <<>>, isDragging |-> FALSE,
   longPressTimer |-> <<>>, longPressTriggered |-> FALSE]

\* useEffect(() => { drawCanvas(); }, [drawCanvas]): every canvas shows the
\* composite of the state the step leaves.
Redraw ==
  canvas' = [id \in ImageIds |->
              drawCanvas(ResultOf(results', id), deletedDetections'[id],
                         showOriginal'[id], blurConfig'.blurMode,
                         blurConfig'.blurIntensity, blurConfig'.emoji)]

\* The two panels before anything is done, under the settings blurConfig.
PanelsInit ==
  /\ results = <<SceneResult>>
  /\ deletedDetections = [id \in ImageIds |-> <<>>]
  /\ showOriginal = [id \in ImageIds |-> FALSE]
  /\ editMode = [id \in ImageIds |-> FALSE]
  /\ showDownloadSummary = <<>>
  /\ canvas = [id \in ImageIds |->
                drawCanvas(SceneResult, <<>>, FALSE, blurConfig.blurMode,
                           blurConfig.blurIntensity, blurConfig.emoji)]
  /\ pointer = [id \in ImageIds |-> IdlePointer]
  /\ download = <<>>
  /\ detections = ReviewResult.detections
  /\ reviewEditMode = FALSE
  /\ reviewShowOriginal = FALSE
  /\ showConfirmDownload = FALSE
  /\ reviewCanvas = ReviewPanel_drawCanvas(ReviewResult, ReviewResult.detections,
                                           FALSE, FALSE, blurConfig.blurMode,
                                           blurConfig.emoji)
  /\ downloadTimers = <<>>
  /\ reported = <<>>

\* Home as it mounts: useState's initial values, nothing in flight.
HomeDefaults ==
  [blurMode |-> "gaussian", blurIntensity |-> 80, detectFaces |-> TRUE,
   detectPlates |-> TRUE, selectedEmoji |-> "U+1F600"]

HomeInit ==
  /\ files = <<>>
  /\ controls = HomeDefaults
  /\ homeResults = <<>>
  /\ processMutation = [status |-> "idle", id |-> 0, error |-> ""]
  /\ uploadErrors = <<>>
  /\ network = <<>>
  /\ served = <<>>

DragStudyOff == dragInput = <<>> /\ dragStored = <<>>
TwinStudyOff == runs = <<>>
ZipStudyOff ==
  /\ panelResults = <<>> /\ panelEditMode = <<>> /\ panelSummary = <<>>
  /\ downloadingZip = FALSE /\ zipBuild = <<>> /\ exported = <<>>
ToggleStudyOff == toggleInput = <<>> /\ toggleResult = <<>>
\* QuotaRequestModal and FeedbackModal as mounted: closed, useState values.
ModalsClosed ==
  /\ quotaModal = [isOpen |-> FALSE, useCase |-> "", email |-> "",
                   isSubmitting |-> FALSE, submitted |-> FALSE]
  /\ quotaNet = <<>>
  /\ feedback = [isOpen |-> FALSE, imageId |-> "", missedType |-> "face",
                 comment |-> "", isSubmitting |-> FALSE, submitted |-> FALSE]
  /\ feedbackNet = <<>>
  /\ feedbackTimers = <<>>
SidesOff ==
  ZipStudyOff /\ ToggleStudyOff /\ quotaData = <<>> /\ ModalsClosed
StudiesOff ==
  /\ padInput = <<>> /\ padResult = <<>>
  /\ pipeInput = <<>> /\ pipeResult = <<>>
  /\ SidesOff

\* The panels: one of them is mounted on its result.
Init ==
  /\ blurConfig \in BlurConfigs
  /\ PanelsInit
  /\ mounted \in {"PreviewPanel", "ReviewPanel"}
  /\ DragStudyOff
  /\ TwinStudyOff
  /\ StudiesOff
  /\ HomeInit

\* The summary modal covers the page: nothing under it can be clicked.
NoModal == showDownloadSummary = <<>>

\* The pointer is not in a gesture on a canvas.  The Original and Download
\* buttons and the settings are operated between gestures; the edit button
\* and the chips also during one.
PointerIdle == \A id \in ImageIds : pointer[id] = IdlePointer

\* -------------------------------------------------------- panel buttons
\* setEditMode(prev => ({...prev, [image_id]: !prev[image_id]}))
ToggleEditMode(id) ==
  /\ mounted = "PreviewPanel"
  /\ NoModal
  /\ UNCHANGED <<reviewVars, pageVars>>
  /\ editMode' = [editMode EXCEPT ![id] = ~editMode[id]]
  /\ download' = <<>>
  /\ UNCHANGED <<results, deletedDetections, showOriginal, blurConfig,
                 showDownloadSummary, canvas, pointer>>

toggleOriginal(id) ==
  /\ mounted = "PreviewPanel"
  /\ NoModal
  /\ PointerIdle
  /\ UNCHANGED <<reviewVars, pageVars>>
  /\ showOriginal' = [showOriginal EXCEPT ![id] = ~showOriginal[id]]
  /\ download' = <<>>
  /\ UNCHANGED <<results, deletedDetections, editMode, blurConfig,
                 showDownloadSummary, pointer>>
  /\ Redraw

\* getAddType(imageId) = addDetectionType[imageId] || "face"; the Face /
\* Plate selector is left as it starts.
getAddType(id) == "face"

\* The parent passes new blurMode / blurIntensity / emoji props.
\* PreviewCanvas redraws (drawCanvas depends on them); ReviewPanel's effect
\* depends on [detections, showOriginal, editMode] only and does not run.
SetBlurConfig(c) ==
  /\ NoModal
  /\ PointerIdle
  /\ ~showConfirmDownload
  /\ blurConfig # c
  /\ blurConfig' = c
  /\ download' = <<>>
  /\ UNCHANGED <<results, deletedDetections, showOriginal, editMode,
                 showDownloadSummary, pointer, reviewVars, pageVars>>
  /\ IF mounted = "PreviewPanel" THEN Redraw ELSE UNCHANGED canvas

\* A detection chip: toggleDetection(image_id, det.id, idx) in edit mode.
ChipClick(id, k) ==
  /\ mounted = "PreviewPanel"
  /\ NoModal
  /\ UNCHANGED <<reviewVars, pageVars>>
  /\ editMode[id]
  /\ k \in 1 .. Len(ResultOf(results, id).detections)
  /\ results' = toggleDetection(results, id,
                                ResultOf(results, id).detections[k].id, k)
  /\ download' = <<>>
  /\ UNCHANGED <<deletedDetections, showOriginal, editMode, blurConfig,
                 showDownloadSummary, pointer>>
  /\ Redraw

\* ------------------------------------------------- PreviewCanvas handlers
Detections(id) == ResultOf(results, id).detections

\* handlePointerDown: arms the long-press timer, whose callback closes over
\* the point and over the result / results of this render.
handlePointerDown(id, p) ==
  /\ mounted = "PreviewPanel"
  /\ NoModal
  /\ UNCHANGED <<reviewVars, pageVars>>
  /\ editMode[id]
  /\ pointer' = [pointer EXCEPT ![id] =
                  [dragStart |-> <<p>>, dragCurrent |-> <<p>>,
                   isDragging |-> FALSE,
                   longPressTimer |-> <<[point |-> p, results |-> results]>>,
                   longPressTriggered |-> FALSE]]
  /\ download' = <<>>
  /\ UNCHANGED <<results, deletedDetections, showOriginal, editMode,
                 blurConfig, showDownloadSummary, canvas>>

\* The 600 ms timer fires: removeDetection on the region under the point,
\* both looked up in the results the callback closed over.
LongPressFire(id) ==
  /\ mounted = "PreviewPanel"
  /\ pointer[id].longPressTimer # <<>>
  /\ UNCHANGED <<reviewVars, pageVars>>
  /\ LET t == pointer[id].longPressTimer[1]
         dets == ResultOf(t.results, id).detections
         clickedIndex == HitIndex(dets, t.point[1], t.point[2], CanvasRect)
     IN IF clickedIndex # 0
        THEN /\ Len(deletedDetections[id]) < MaxDeleted
             /\ results' = removeDetection(t.results, id,
                                           dets[clickedIndex].id, clickedIndex)
             /\ deletedDetections' =
                  removeDetectionDeleted(deletedDetections, t.results, id,
                                         dets[clickedIndex].id, clickedIndex)
             /\ pointer' = [pointer EXCEPT ![id].longPressTimer = <<>>,
                                           ![id].longPressTriggered = TRUE]
        ELSE /\ pointer' = [pointer EXCEPT ![id].longPressTimer = <<>>]
             /\ UNCHANGED <<results, deletedDetections>>
  /\ download' = <<>>
  /\ UNCHANGED <<showOriginal, editMode, blurConfig, showDownloadSummary>>
  /\ Redraw

handlePointerMove(id, p) ==
  /\ mounted = "PreviewPanel"
  /\ NoModal
  /\ UNCHANGED <<reviewVars, pageVars>>
  /\ editMode[id]
  /\ pointer[id].dragStart # <<>>
  /\ pointer' = [pointer EXCEPT ![id] =
       IF ~pointer[id].isDragging /\ MovedFar(pointer[id].dragStart[1], p)
       THEN [@ EXCEPT !.isDragging = TRUE, !.longPressTimer = <<>>,
                      !.dragCurrent = <<p>>]
       ELSE [@ EXCEPT !.dragCurrent = <<p>>]]
  /\ download' = <<>>
  /\ UNCHANGED <<results, deletedDetections, showOriginal, editMode,
                 blurConfig, showDownloadSummary, canvas>>

\* handlePointerUp: after a long press nothing; without a drag a click on
\* the region under dragStart toggles it; a drag adds its box.
handlePointerUp(id) ==
  /\ mounted = "PreviewPanel"
  /\ NoModal
  /\ UNCHANGED <<reviewVars, pageVars>>
  /\ editMode[id]
  /\ pointer[id].dragStart # <<>>
  /\ LET start == pointer[id].dragStart[1]
         end == IF pointer[id].dragCurrent # <<>>
                THEN pointer[id].dragCurrent[1] ELSE start
         clickedIndex == HitIndex(Detections(id), start[1], start[2],
                                  CanvasRect)
         box == DragBox(start, end, CanvasRect)
     IN IF pointer[id].longPressTriggered
        THEN UNCHANGED results
        ELSE IF ~pointer[id].isDragging
        THEN IF clickedIndex # 0
             THEN results' = toggleDetection(results, id,
                               Detections(id)[clickedIndex].id, clickedIndex)
             ELSE UNCHANGED results
        ELSE IF box # <<>>
             THEN /\ Len(Detections(id)) + Len(deletedDetections[id])
                       < MaxDetections
                  /\ \E e \in IdEntropy :
                       results' = addDetection(results, id, box[1],
                                    getAddType(id), e.now, e.rnd)
             ELSE UNCHANGED results
  /\ pointer' = [pointer EXCEPT ![id] = IdlePointer]
  /\ download' = <<>>
  /\ UNCHANGED <<deletedDetections, showOriginal, editMode, blurConfig,
                 showDownloadSummary>>
  /\ Redraw

\* onPointerLeave
handlePointerLeave(id) ==
  /\ mounted = "PreviewPanel"
  /\ pointer[id] # IdlePointer
  /\ UNCHANGED <<reviewVars, pageVars>>
  /\ pointer' = [pointer EXCEPT ![id] = IdlePointer]
  /\ download' = <<>>
  /\ UNCHANGED <<results, deletedDetections, showOriginal, editMode,
                 blurConfig, showDownloadSummary, canvas>>

\* ----------------------------------------------------------- download
\* The Download button of an image card: opens the summary modal on the
\* result of this render.
handleDownloadSingle(id) ==
  /\ mounted = "PreviewPanel"
  /\ NoModal
  /\ PointerIdle
  /\ UNCHANGED <<reviewVars, pageVars>>
  /\ showDownloadSummary' = <<ResultOf(results, id)>>
  /\ download' = <<>>
  /\ UNCHANGED <<results, deletedDetections, showOriginal, editMode,
                 blurConfig, canvas, pointer>>

\* "Review Again": closes the summary modal and puts its image in edit mode.
ReviewAgain ==
  /\ mounted = "PreviewPanel"
  /\ showDownloadSummary # <<>>
  /\ UNCHANGED <<reviewVars, pageVars>>
  /\ showDownloadSummary' = <<>>
  /\ editMode' = [editMode EXCEPT ![showDownloadSummary[1].image_id] = TRUE]
  /\ download' = <<>>
  /\ UNCHANGED <<results, deletedDetections, showOriginal, blurConfig, canvas,
                 pointer>>

\* The modal's backdrop: setShowDownloadSummary(null).
CloseDownloadSummary ==
  /\ mounted = "PreviewPanel"
  /\ showDownloadSummary # <<>>
  /\ UNCHANGED <<reviewVars, pageVars>>
  /\ showDownloadSummary' = <<>>
  /\ download' = <<>>
  /\ UNCHANGED <<results, deletedDetections, showOriginal, editMode,
                 blurConfig, canvas, pointer>>

\* "Download Protected Image": confirmDownload(showDownloadSummary).
confirmDownload ==
  /\ mounted = "PreviewPanel"
  /\ showDownloadSummary # <<>>
  /\ UNCHANGED <<reviewVars, pageVars>>
  /\ LET result == showDownloadSummary[1]
     IN download' =
          <<[filename |-> "protected_" \o result.original_filename,
             image |-> renderCompositeDataUrl(result,
                         deletedDetections[result.image_id],
                         blurConfig.blurMode, blurConfig.blurIntensity,
                         blurConfig.emoji)]>>
  /\ showDownloadSummary' = <<>>
  /\ UNCHANGED <<results, deletedDetections, showOriginal, editMode,
                 blurConfig, canvas, pointer>>

\* ---------------------------------------------------- ReviewPanel handlers
\* The CSS points a click on ReviewPanel's canvas lands on: on the face
\* only, on face and plate, on the plate only, on neither.
ReviewPoints == {<<4, 4>>, <<8, 8>>, <<12, 10>>, <<22, 20>>}

\* useEffect(() => { drawCanvas(); }, [detections, showOriginal, editMode])
ReviewRedraw ==
  reviewCanvas' = ReviewPanel_drawCanvas(ReviewResult, detections',
                    reviewShowOriginal', reviewEditMode',
                    blurConfig.blurMode, blurConfig.emoji)

disabledCount == Cardinality({k \in 1 .. Len(detections) :
                               ~detections[k].enabled})

\* onClick={() => setEditMode(!editMode)}
ReviewToggleEditMode ==
  /\ mounted = "ReviewPanel"
  /\ ~showConfirmDownload
  /\ reviewEditMode' = ~reviewEditMode
  /\ download' = <<>>
  /\ UNCHANGED <<detections, reviewShowOriginal, showConfirmDownload,
                 downloadTimers, reported, previewVars, blurConfig, pageVars>>
  /\ ReviewRedraw

\* ReviewPanel.handleCanvasClick: flips the first detection under the click.
handleCanvasClick(p) ==
  /\ mounted = "ReviewPanel"
  /\ ~showConfirmDownload
  /\ reviewEditMode
  /\ LET clickedIndex == HitIndex(detections, p[1], p[2], CanvasRect)
     IN IF clickedIndex # 0
        THEN /\ detections' =
                  [detections EXCEPT ![clickedIndex].enabled =
                                       ~detections[clickedIndex].enabled]
             /\ reported' = <<detections'>>
        ELSE UNCHANGED <<detections, reported>>
  /\ download' = <<>>
  /\ UNCHANGED <<reviewEditMode, reviewShowOriginal, showConfirmDownload,
                 downloadTimers, previewVars, blurConfig, pageVars>>
  /\ ReviewRedraw

\* "Reset AI" (shown in edit mode): ReviewPanel.handleReset, every
\* detection enabled again.
ReviewPanel_handleReset ==
  /\ mounted = "ReviewPanel"
  /\ ~showConfirmDownload
  /\ reviewEditMode
  /\ detections' = [k \in 1 .. Len(detections) |->
                     [detections[k] EXCEPT !.enabled = TRUE]]
  /\ reported' = <<detections'>>
  /\ download' = <<>>
  /\ UNCHANGED <<reviewEditMode, reviewShowOriginal, showConfirmDownload,
                 downloadTimers, previewVars, blurConfig, pageVars>>
  /\ ReviewRedraw

\* "Hold to Compare": onMouseDown shows the original, onMouseUp and
\* onMouseLeave the composite.
HoldToCompare(b) ==
  /\ mounted = "ReviewPanel"
  /\ ~showConfirmDownload
  /\ reviewShowOriginal # b
  /\ reviewShowOriginal' = b
  /\ download' = <<>>
  /\ UNCHANGED <<detections, reviewEditMode, showConfirmDownload,
                 downloadTimers, reported, previewVars, blurConfig, pageVars>>
  /\ ReviewRedraw

\* downloadImage: leaves edit mode and starts the 100 ms timer, which
\* remembers wasEditMode.
downloadImage ==
  /\ Len(downloadTimers) < MaxPendingDownloads
  /\ reviewEditMode' = FALSE
  /\ downloadTimers' = Append(downloadTimers, reviewEditMode)
  /\ download' = <<>>
  /\ UNCHANGED <<detections, reviewShowOriginal, showConfirmDownload,
                 reported, previewVars, blurConfig, pageVars>>
  /\ ReviewRedraw

\* ReviewPanel.handleDownload: asks first when a detection is disabled.
handleDownload ==
  /\ mounted = "ReviewPanel"
  /\ ~showConfirmDownload
  /\ IF disabledCount > 0
     THEN /\ showConfirmDownload' = TRUE
          /\ download' = <<>>
          /\ UNCHANGED <<detections, reviewEditMode, reviewShowOriginal,
                         reviewCanvas, downloadTimers, reported, previewVars,
                         blurConfig, pageVars>>
     ELSE downloadImage

\* "Download Anyway"
ConfirmDownloadAnyway ==
  /\ mounted = "ReviewPanel"
  /\ showConfirmDownload
  /\ downloadImage

\* "Cancel" and the backdrop: setShowConfirmDownload(false).
CancelConfirmDownload ==
  /\ mounted = "ReviewPanel"
  /\ showConfirmDownload
  /\ showConfirmDownload' = FALSE
  /\ download' = <<>>
  /\ UNCHANGED <<detections, reviewEditMode, reviewShowOriginal, reviewCanvas,
                 downloadTimers, reported, previewVars, blurConfig, pageVars>>

\* The timer of downloadImage fires: canvas.toDataURL is saved, edit mode
\* and the modal are set back.
DownloadTimerFire ==
  /\ mounted = "ReviewPanel"
  /\ downloadTimers # <<>>
  /\ download' = <<[filename |-> "privacy_" \o ReviewResult.original_filename,
                    image |-> ImageOf(reviewCanvas)]>>
  /\ reviewEditMode' = Head(downloadTimers)
  /\ showConfirmDownload' = FALSE
  /\ downloadTimers' = Tail(downloadTimers)
  /\ UNCHANGED <<detections, reviewShowOriginal, reported, previewVars,
                 blurConfig, pageVars>>
  /\ ReviewRedraw

Next ==
  \/ \E id \in ImageIds : ToggleEditMode(id)
  \/ \E id \in ImageIds : toggleOriginal(id)
  \/ \E c \in BlurConfigs : SetBlurConfig(c)
  \/ \E id \in ImageIds, k \in 1 .. MaxDetections : ChipClick(id, k)
  \/ \E id \in ImageIds, p \in GesturePoints : handlePointerDown(id, p)
  \/ \E id \in ImageIds : LongPressFire(id)
  \/ \E id \in ImageIds, p \in GesturePoints : handlePointerMove(id, p)
  \/ \E id \in ImageIds : handlePointerUp(id)
  \/ \E id \in ImageIds : handlePointerLeave(id)
  \/ \E id \in ImageIds : handleDownloadSingle(id)
  \/ ReviewAgain
  \/ CloseDownloadSummary
  \/ confirmDownload
  \/ ReviewToggleEditMode
  \/ \E p \in ReviewPoints : handleCanvasClick(p)
  \/ ReviewPanel_handleReset
  \/ \E b \in BOOLEAN : HoldToCompare(b)
  \/ handleDownload
  \/ ConfirmDownloadAnyway
  \/ CancelConfirmDownload
  \/ DownloadTimerFire

Spec == Init /\ [][Next]_vars

\* ------------------------------------------------------------------ Home
\* lib/utils: validateFiles.
MaxFileSize == 10 * 1024 * 1024
ValidTypes == {"image/jpeg", "image/png", "image/webp"}
isValidImageType(file) == file.type \in ValidTypes
\* A size check that lets every file pass.
isValidFileSize_NoCheck(file) == TRUE
isValidFileSize(file) == file.size <= MaxFileSize

RECURSIVE validateFiles(_)
validateFiles(fs) ==
  IF fs = <<>> THEN [valid |-> <<>>, errors |-> <<>>]
  ELSE LET rest == validateFiles(Tail(fs))
           file == Head(fs)
       IN IF ~isValidImageType(file)
          THEN [rest EXCEPT !.errors =
                 <<file.name \o ": Invalid file type. Only JPG, PNG, WEBP allowed.">>
                   \o @]
          ELSE IF ~isValidFileSize(file)
          THEN [rest EXCEPT !.errors =
                 <<file.name \o ": File too large. Maximum 10MB allowed.">> \o @]
          ELSE [rest EXCEPT !.valid = <<file>> \o @]

\* <UploadZone maxFiles={10} .../>
HomeMaxFiles == 10

\* The files the user drops or picks: a photo with a picture of exactly
\* 10 MB, and a text file.
PhotoFile == [name |-> "a.jpg", type |-> "image/jpeg", size |-> 2097152]
LargeFile == [name |-> "b.png", type |-> "image/png", size |-> MaxFileSize]
TextFile == [name |-> "notes.txt", type |-> "text/plain", size |-> 120]
Drops == {<<PhotoFile, LargeFile>>, <<TextFile>>}

isProcessing == processMutation.status = "pending"

\* handleFiles without the slice to maxFiles.
handleFiles_NoLimit(newFiles) ==
  LET v == validateFiles(newFiles)
  IN /\ uploadErrors' = v.errors
     /\ IF Len(v.valid) > 0
        THEN files' = files \o v.valid
        ELSE UNCHANGED files

\* UploadZone.handleFiles
handleFiles(newFiles) ==
  LET v == validateFiles(newFiles)
      combined == files \o v.valid
  IN /\ uploadErrors' = v.errors
     /\ IF Len(v.valid) > 0
        THEN files' = SubSeq(combined, 1, Min(Len(combined), HomeMaxFiles))
        ELSE UNCHANGED files

HomeFrame ==
  UNCHANGED <<previewVars, reviewVars, blurConfig, download, mounted,
              dragVars, twinVars, studyVars>>

\* UploadZone.handleDrop: if (!disabled && e.dataTransfer.files)
handleDrop(newFiles) ==
  /\ IF ~isProcessing THEN handleFiles(newFiles)
     ELSE UNCHANGED <<files, uploadErrors>>
  /\ UNCHANGED <<controls, homeResults, processMutation, network, served>>
  /\ HomeFrame

\* UploadZone.handleInputChange; the input is disabled while processing.
handleInputChange(newFiles) ==
  /\ ~isProcessing
  /\ handleFiles(newFiles)
  /\ UNCHANGED <<controls, homeResults, processMutation, network, served>>
  /\ HomeFrame

\* The X on the preview (rendered when !disabled and a file is held):
\* files.length <= 1 ? clearAll() : removeFile(files.length - 1)
RemoveImage ==
  /\ ~isProcessing
  /\ files # <<>>
  /\ IF Len(files) <= 1
     THEN files' = <<>> /\ uploadErrors' = <<>>
     ELSE files' = SubSeq(files, 1, Len(files) - 1) /\ UNCHANGED uploadErrors
  /\ UNCHANGED <<controls, homeResults, processMutation, network, served>>
  /\ HomeFrame

\* The X on a tile of the file list (the list is rendered when
\* files.length > 1, the button when !disabled): removeFile(index).
removeFile(index) ==
  /\ ~isProcessing
  /\ Len(files) > 1
  /\ index \in 0 .. Len(files) - 1
  /\ files' = [k \in 1 .. Len(files) - 1 |->
                IF k <= index THEN files[k] ELSE files[k + 1]]
  /\ UNCHANGED <<uploadErrors, controls, homeResults, processMutation,
                 network, served>>
  /\ HomeFrame

\* "Clear all" above the file list (disabled={disabled}): clearAll.
clearAll ==
  /\ ~isProcessing
  /\ Len(files) > 1
  /\ files' = <<>>
  /\ uploadErrors' = <<>>
  /\ UNCHANGED <<controls, homeResults, processMutation, network, served>>
  /\ HomeFrame

\* ControlPanel, every control disabled={isProcessing}.
onBlurModeChange(mode) ==
  /\ ~isProcessing
  /\ controls.blurMode # mode
  /\ controls' = [controls EXCEPT !.blurMode = mode]
  /\ UNCHANGED <<files, homeResults, processMutation, uploadErrors, network,
                 served>>
  /\ HomeFrame

onBlurIntensityChange(value) ==
  /\ ~isProcessing
  /\ controls.blurIntensity # value
  /\ controls' = [controls EXCEPT !.blurIntensity = value]
  /\ UNCHANGED <<files, homeResults, processMutation, uploadErrors, network,
                 served>>
  /\ HomeFrame

onDetectFacesChange ==
  /\ ~isProcessing
  /\ controls' = [controls EXCEPT !.detectFaces = ~controls.detectFaces]
  /\ UNCHANGED <<files, homeResults, processMutation, uploadErrors, network,
                 served>>
  /\ HomeFrame

onDetectPlatesChange ==
  /\ ~isProcessing
  /\ controls' = [controls EXCEPT !.detectPlates = ~controls.detectPlates]
  /\ UNCHANGED <<files, homeResults, processMutation, uploadErrors, network,
                 served>>
  /\ HomeFrame

\* Boolean.prototype.toString
BoolToString(b) == IF b THEN "true" ELSE "false"

\* processImages with the two flags exchanged.
processImages_FlagsSwapped(fs, options) ==
  [files |-> fs,
   blur_mode |-> options.blur_mode,
   blur_intensity |-> ToString(options.blur_intensity),
   detect_faces |-> BoolToString(options.detect_plates),
   detect_plates |-> BoolToString(options.detect_faces),
   emoji |-> options.emoji]

\* lib/api processImages: the FormData of POST /api/process.  emoji is
\* appended only when it is set (<<>> for undefined).
processImages(fs, options) ==
  [files |-> fs,
   blur_mode |-> options.blur_mode,
   blur_intensity |-> ToString(options.blur_intensity),
   detect_faces |-> BoolToString(options.detect_faces),
   detect_plates |-> BoolToString(options.detect_plates),
   emoji |-> options.emoji]

\* processMutation's mutationFn: the options it builds from Home's state.
mutationFn ==
  processImages(files,
    [blur_mode |-> controls.blurMode,
     blur_intensity |-> controls.blurIntensity,
     detect_faces |-> controls.detectFaces,
     detect_plates |-> controls.detectPlates,
     emoji |-> IF controls.blurMode = "emoji"
               THEN <<controls.selectedEmoji>> ELSE <<>>])

InFlightIds == {network[i].id : i \in 1 .. Len(network)}

\* "Apply Privacy Blur", disabled={!hasFiles || isProcessing ||
\* (quotaQuery.data?.remaining === 0)}: handleProcess,
\* processMutation.mutate().
handleProcess ==
  /\ files # <<>>
  /\ ~isProcessing
  /\ ~(quotaData # <<>> /\ quotaData[1].remaining = 0)
  /\ LET id == CHOOSE n \in 1 .. MaxRequests + 1 :
                 n \notin InFlightIds /\ n # processMutation.id
     IN /\ processMutation' = [status |-> "pending", id |-> id, error |-> ""]
        /\ network' = Append(network, [kind |-> "request", id |-> id,
                                       body |-> mutationFn])
  /\ UNCHANGED <<files, controls, homeResults, uploadErrors, served>>
  /\ HomeFrame

\* "Start Over" (shown when results are held): Home.handleReset.
Home_handleReset ==
  /\ homeResults # <<>>
  /\ files' = <<>>
  /\ homeResults' = <<>>
  /\ processMutation' = [status |-> "idle", id |-> processMutation.id,
                          error |-> ""]
  /\ UNCHANGED <<controls, uploadErrors, network, served>>
  /\ HomeFrame

\* The backend's reading of a boolean form field.
ParseBool(str) == str = "true"

\* The backend on one image: each detector is invoked when its flag is set,
\* and finds what the picture holds, a face and a plate.
DetectorsInvoked(body) ==
  (IF ParseBool(body.detect_faces) THEN {"face"} ELSE {})
    \cup (IF ParseBool(body.detect_plates) THEN {"license_plate"} ELSE {})

DetectionsFound(body) ==
  (IF "face" \in DetectorsInvoked(body) THEN <<"face">> ELSE <<>>)
    \o (IF "license_plate" \in DetectorsInvoked(body)
        THEN <<"license_plate">> ELSE <<>>)

ProcessBatch(body) ==
  [i \in 1 .. Len(body.files) |->
    [original_filename |-> body.files[i].name,
     detections |-> DetectionsFound(body)]]

\* How POST /api/process ends: the batch is processed; it is processed but
\* for its first image, which fails on its own (a batch of two or more);
\* it is refused with 429 and the documented body when the daily quota is
\* used up; it ends with 500 and a JSON body that has no detail; a proxy
\* answers 502 with a body that is not JSON.
ServerOutcomes ==
  {"processed", "partial", "rate_limited", "no_detail", "not_json"}

\* POST /api/process is served.  A per-image error does not abort the
\* batch: the remaining images are processed and their results returned.
ServerProcess(outcome) ==
  /\ network # <<>>
  /\ Head(network).kind = "request"
  /\ outcome = "partial" => Len(Head(network).body.files) >= 2
  /\ LET req == Head(network)
         ok == outcome \in {"processed", "partial"}
         processed == IF outcome = "processed" THEN ProcessBatch(req.body)
                      ELSE IF outcome = "partial"
                      THEN Tail(ProcessBatch(req.body))
                      ELSE <<>>
     IN /\ network' = Append(Tail(network),
                        [kind |-> "response", id |-> req.id, ok |-> ok,
                         status |-> CASE outcome = "rate_limited" -> 429
                                      [] outcome = "no_detail" -> 500
                                      [] outcome = "not_json" -> 502
                                      [] OTHER -> 200,
                         json |-> outcome # "not_json",
                         detail |-> IF outcome = "rate_limited"
                                    THEN <<"Rate limit exceeded. Maximum 5 batches per day.">>
                                    ELSE <<>>,
                         results |-> processed])
        /\ served' = <<[body |-> req.body,
                        invoked |-> IF ok THEN DetectorsInvoked(req.body)
                                    ELSE {},
                        results |-> processed,
                        failed |-> IF outcome = "partial"
                                   THEN {req.body.files[1].name} ELSE {}]>>
  /\ UNCHANGED <<files, controls, homeResults, processMutation, uploadErrors>>
  /\ HomeFrame

\* An error message that is always the status line.
ResponseErrorMessage_StatusOnly(res) == "HTTP error " \o ToString(res.status)

\* lib/api processImages on a response that is not ok: the message of the
\* Error it throws.  response.json() of a body that is not JSON rejects and
\* the catch supplies { detail: "Unknown error" }; a missing or empty detail
\* is falsy.
ResponseErrorMessage(res) ==
  LET detail == IF res.json THEN res.detail ELSE <<"Unknown error">>
  IN IF detail # <<>> /\ detail[1] # "" THEN detail[1]
     ELSE "HTTP error " \o ToString(res.status)

\* The response arrives and the mutation settles.  onSuccess is an option
\* of useMutation and runs also after reset(); the status and the error
\* follow only when the observer still holds this mutation.
Settle ==
  /\ network # <<>>
  /\ Head(network).kind = "response"
  /\ LET res == Head(network)
         current == processMutation.status = "pending"
                      /\ processMutation.id = res.id
     IN /\ network' = Tail(network)
        /\ homeResults' = IF res.ok THEN res.results ELSE homeResults
        /\ processMutation' =
             IF current
             THEN [processMutation EXCEPT
                     !.status = IF res.ok THEN "success" ELSE "error",
                     !.error = IF res.ok THEN ""
                               ELSE ResponseErrorMessage(res)]
             ELSE processMutation
  /\ served' = <<>>
  /\ UNCHANGED <<files, controls, uploadErrors>>
  /\ HomeFrame

\* String.prototype.includes, case-sensitive.
Includes(str, search) ==
  \E i \in 1 .. Len(str) - Len(search) + 1 :
    SubSeq(str, i, i + Len(search) - 1) = search

\* Home's Error Display: which panel the page shows for a failed request.
\* (The amber quota panel is rendered only when !processMutation.isError.)
ErrorPanel ==
  IF processMutation.status # "error" THEN "none"
  ELSE IF \/ Includes(processMutation.error, "rate limit")
          \/ Includes(processMutation.error, "429")
  THEN "Daily limit reached (BETA)"
  ELSE "Processing failed"

InitHome ==
  /\ blurConfig = DefaultBlurConfig
  /\ PanelsInit
  /\ mounted = "PreviewPanel"
  /\ DragStudyOff
  /\ TwinStudyOff
  /\ StudiesOff
  /\ HomeInit

NextHome ==
  \/ \E d \in Drops :
       /\ Len(files) + Len(validateFiles(d).valid) <= MaxFilesHeld
       /\ handleDrop(d)
  \/ \E d \in Drops :
       /\ Len(files) + Len(validateFiles(d).valid) <= MaxFilesHeld
       /\ handleInputChange(d)
  \/ RemoveImage
  \/ \E mode \in BlurModes : onBlurModeChange(mode)
  \/ \E value \in Intensities : onBlurIntensityChange(value)
  \/ onDetectFacesChange
  \/ onDetectPlatesChange
  \/ Len(network) < MaxInFlight /\ handleProcess
  \/ Home_handleReset
  \/ \E outcome \in ServerOutcomes : ServerProcess(outcome)
  \/ Settle

SpecHome == InitHome /\ [][NextHome]_vars

\* ---------------------------------------------------------- Home: session
\* Processing runs one after another on the page, with 'Start Over' and the
\* daily quota: photos are dropped, at most MaxRequests requests are on
\* their way, the backend processes a batch or answers 429.

\* quotaQuery settles (on mount, every minute, and refetched after a
\* processing run): the batches the backend says remain.
QuotaFetched(remaining) ==
  /\ quotaData' = <<[remaining |-> remaining]>>
  /\ UNCHANGED <<previewVars, reviewVars, blurConfig, download, mounted,
                 dragVars, twinVars, homeVars, padInput, padResult,
                 pipeInput, pipeResult, zipVars, toggleVars, modalVars>>

NextSession ==
  \/ /\ Len(files) < MaxFilesHeld
     /\ handleDrop(<<PhotoFile>>)
  \/ Len(network) < MaxRequests /\ handleProcess
  \/ Home_handleReset
  \/ \E outcome \in {"processed", "rate_limited"} : ServerProcess(outcome)
  \/ Settle
  \/ \E remaining \in 0 .. 1 : QuotaFetched(remaining)

SpecSession == InitHome /\ [][NextSession]_vars

\* ----------------------------------------------------------- upload zone
\* UploadZone under maxFiles = 10 with nothing being processed.  What is
\* dropped or picked: two photos, one of exactly 10 MB, with a text file
\* between them; a picture of 10 MB and one byte with a text file.
UploadBatches ==
  {<<PhotoFile, TextFile, LargeFile>>,
   <<[name |-> "c.webp", type |-> "image/webp", size |-> MaxFileSize + 1],
     TextFile>>}

NextUpload ==
  \/ \E d \in UploadBatches : handleDrop(d)
  \/ \E d \in UploadBatches : handleInputChange(d)
  \/ RemoveImage
  \/ \E index \in 0 .. HomeMaxFiles - 1 : removeFile(index)
  \/ clearAll

SpecUpload == InitHome /\ [][NextUpload]_vars

\* ------------------------------------------------------------ drag study
\* handlePointerUp's drag branch and addDetection on every drag whose start
\* and end lie inside the canvas, for canvases shown at 1 .. MaxDragScale
\* CSS pixels per image pixel.  x and y are handled alike and apart: the
\* points are those of the outermost ring of CSS pixels, which takes every
\* x and every y.
DragRects ==
  {[width |-> k * ImgW, height |-> k * ImgH] : k \in 1 .. MaxDragScale}

InsideCanvas(p, rect) ==
  /\ 0 <= p[1] /\ p[1] < rect.width
  /\ 0 <= p[2] /\ p[2] < rect.height

DragPoints(rect) ==
  {p \in (0 .. rect.width - 1) \X (0 .. rect.height - 1) :
     \/ p[1] \in {0, rect.width - 1}
     \/ p[2] \in {0, rect.height - 1}}

InitDrag ==
  /\ blurConfig = DefaultBlurConfig
  /\ PanelsInit
  /\ mounted = "PreviewPanel"
  /\ \E rect \in DragRects : \E a, b \in DragPoints(rect) :
       dragInput = <<[start |-> a, end |-> b, rect |-> rect]>>
  /\ dragStored = <<>>
  /\ TwinStudyOff
  /\ StudiesOff
  /\ HomeInit

\* The pointer is released after the drag: onAddDetection with the rounded
\* box when it is large enough.
DragRelease ==
  /\ dragInput # <<>>
  /\ dragStored = <<>>
  /\ LET d == dragInput[1]
         box == DragBox(d.start, d.end, d.rect)
     IN IF box # <<>>
        THEN \E e \in IdEntropy :
               dragStored' = addDetection(<<SceneResult>>, "img1", box[1],
                                          getAddType("img1"), e.now, e.rnd)
        ELSE dragStored' = <<SceneResult>>
  /\ UNCHANGED <<dragInput, previewVars, reviewVars, blurConfig, download,
                 mounted, twinVars, studyVars, homeVars>>

NextDrag == DragRelease

SpecDrag == InitDrag /\ [][NextDrag]_vars

\* ------------------------------------------------------------ twin study
\* Two runs of the editor from the same result and settings, given the same
\* gestures; Date.now() and Math.random() are each run's own.
RunStart == [results |-> <<SceneResult>>, deletedDetections |-> <<>>]

RunDetections(r) == ResultOf(r.results, "img1").detections

InitTwin ==
  /\ blurConfig \in BlurConfigs
  /\ PanelsInit
  /\ mounted = "PreviewPanel"
  /\ DragStudyOff
  /\ runs = <<RunStart, RunStart>>
  /\ StudiesOff
  /\ HomeInit

TwinFrame ==
  UNCHANGED <<previewVars, reviewVars, blurConfig, download, mounted,
              dragVars, studyVars, homeVars>>

\* A drag from a to b in both runs: addDetection in each.
TwinDrag(a, b) ==
  /\ runs # <<>>
  /\ MovedFar(a, b)
  /\ DragBox(a, b, CanvasRect) # <<>>
  /\ \A i \in 1 .. 2 :
       Len(RunDetections(runs[i])) + Len(runs[i].deletedDetections)
         < MaxDetections
  /\ \E e1, e2 \in IdEntropy :
       runs' = [i \in 1 .. 2 |->
                 [runs[i] EXCEPT !.results =
                   addDetection(runs[i].results, "img1",
                                DragBox(a, b, CanvasRect)[1],
                                getAddType("img1"),
                                IF i = 1 THEN e1.now ELSE e2.now,
                                IF i = 1 THEN e1.rnd ELSE e2.rnd)]]
  /\ TwinFrame

\* A click at p in both runs: toggleDetection on the region under it.
TwinClick(p) ==
  /\ runs # <<>>
  /\ runs' = [i \in 1 .. 2 |->
               LET dets == RunDetections(runs[i])
                   k == HitIndex(dets, p[1], p[2], CanvasRect)
               IN IF k = 0 THEN runs[i]
                  ELSE [runs[i] EXCEPT !.results =
                         toggleDetection(runs[i].results, "img1",
                                         dets[k].id, k)]]
  /\ TwinFrame

\* The k-th chip in both runs.
TwinChip(k) ==
  /\ runs # <<>>
  /\ \A i \in 1 .. 2 : k <= Len(RunDetections(runs[i]))
  /\ runs' = [i \in 1 .. 2 |->
               [runs[i] EXCEPT !.results =
                 toggleDetection(runs[i].results, "img1",
                                 RunDetections(runs[i])[k].id, k)]]
  /\ TwinFrame

\* A long press at p in both runs: removeDetection on the region under it.
TwinLongPress(p) ==
  /\ runs # <<>>
  /\ \A i \in 1 .. 2 : Len(runs[i].deletedDetections) < MaxDeleted
  /\ runs' = [i \in 1 .. 2 |->
               LET dets == RunDetections(runs[i])
                   k == HitIndex(dets, p[1], p[2], CanvasRect)
               IN IF k = 0 THEN runs[i]
                  ELSE [results |->
                          removeDetection(runs[i].results, "img1",
                                          dets[k].id, k),
                        deletedDetections |->
                          removeDetectionDeleted(
                            [id \in ImageIds |-> runs[i].deletedDetections],
                            runs[i].results, "img1", dets[k].id, k)["img1"]]]
  /\ TwinFrame

NextTwin ==
  \/ \E a, b \in GesturePoints : TwinDrag(a, b)
  \/ \E p \in GesturePoints : TwinClick(p)
  \/ \E k \in 1 .. MaxDetections : TwinChip(k)
  \/ \E p \in GesturePoints : TwinLongPress(p)

SpecTwin == InitTwin /\ [][NextTwin]_vars

\* What run i shows in protected view.
RunComposite(i) ==
  drawCanvas(ResultOf(runs[i].results, "img1"), runs[i].deletedDetections,
             FALSE, blurConfig.blurMode, blurConfig.blurIntensity,
             blurConfig.emoji)

\* ================================================================ claims
\* The composites of PreviewPanel: what its canvas shows in protected view,
\* and the image of the file the last step downloaded.
PreviewShown(id) == mounted = "PreviewPanel" /\ ~showOriginal[id]
Downloaded(id) ==
  /\ mounted = "PreviewPanel"
  /\ download # <<>>
  /\ download[1].filename =
       "protected_" \o ResultOf(results, id).original_filename
ReviewShown == mounted = "ReviewPanel" /\ ~reviewShowOriginal

RegionObscured(pixels, det) ==
  \A p \in Pixels : InRect(p, Rect(det)) => ~ShowsOriginal(pixels[p])
RegionOriginal(pixels, det) ==
  \A p \in Pixels : InRect(p, Rect(det)) => ShowsOriginal(pixels[p])
Overlap(d, e) == \E p \in Pixels : InRect(p, Rect(d)) /\ InRect(p, Rect(e))

\* C1: in the preview composite and in the downloaded composite, every
\* pixel inside the rectangle of every enabled region is obscured (does not
\* show the original image), also where the region overlaps a disabled
\* region or the padded rectangle of a deleted region.
C1_EnabledRegionsObscured ==
  /\ \A id \in ImageIds : \A k \in 1 .. Len(Detections(id)) :
       Detections(id)[k].enabled =>
         /\ PreviewShown(id) => RegionObscured(canvas[id], Detections(id)[k])
         /\ Downloaded(id) =>
              RegionObscured(download[1].image.pixels, Detections(id)[k])
  /\ ReviewShown =>
       \A k \in 1 .. Len(detections) :
         detections[k].enabled => RegionObscured(reviewCanvas, detections[k])

ReviewPainted(p) ==
  \/ \E k \in 1 .. Len(detections) :
       detections[k].enabled /\ InRect(p, Rect(detections[k]))
  \/ /\ reviewEditMode
     /\ \E k \in 1 .. Len(detections) :
          InBorder(p, detections[k]) \/ InLabel(p, detections[k])

SameButEnabled(a, b) ==
  /\ Len(a) = Len(b)
  /\ \A k \in 1 .. Len(a) :
       [a[k] EXCEPT !.enabled = TRUE] = [b[k] EXCEPT !.enabled = TRUE]

\* The toggling operations: a chip or a click on a PreviewCanvas region
\* (toggleDetection), a click on ReviewPanel's canvas, and "Reset AI".
ToggleStep ==
  \/ \E id \in ImageIds, k \in 1 .. MaxDetections : ChipClick(id, k)
  \/ \E id \in ImageIds :
       /\ ~pointer[id].longPressTriggered
       /\ ~pointer[id].isDragging
       /\ handlePointerUp(id)
  \/ \E p \in ReviewPoints : handleCanvasClick(p)
  \/ ReviewPanel_handleReset

\* C3: a toggling operation (toggleDetection, the canvas-click toggle,
\* ReviewPanel's "Reset AI") changes nothing of a region but enabled: after
\* it the list holds the same regions in the same order, each with the same
\* id, x, y, width, height, confidence and detection_type, and so after any
\* sequence of them.
C3_ToggleKeepsRegions ==
  [][ToggleStep =>
       /\ Len(results') = Len(results)
       /\ \A i \in 1 .. Len(results) :
            /\ results'[i].image_id = results[i].image_id
            /\ SameButEnabled(results[i].detections, results'[i].detections)
       /\ SameButEnabled(detections, detections')
       /\ deletedDetections' = deletedDetections]_vars

\* An AI region and a manual region after toggles: the manual one disabled.
C3_Witness ==
  \E id \in ImageIds : \E k, m \in 1 .. Len(Detections(id)) :
    /\ mounted = "PreviewPanel"
    /\ ~IsManualId(Detections(id)[k].id)
    /\ IsManualId(Detections(id)[m].id)
    /\ ~Detections(id)[m].enabled

\* ------------------------------------------------------------------- C4
\* C4: the identifiers of the regions of one image result are pairwise
\* distinct, and every region that was added by hand has an identifier with
\* the prefix manual_, different from the AI-generated identifiers and from
\* the other manual ones.
C4_IdsDistinct ==
  \A id \in ImageIds :
    LET dets == Detections(id)
        ai == {SceneDetections[k].id : k \in 1 .. Len(SceneDetections)}
    IN /\ \A j, k \in 1 .. Len(dets) : j # k => dets[j].id # dets[k].id
       /\ \A k \in 1 .. Len(dets) :
            dets[k].id \notin ai => IsManualId(dets[k].id)
       /\ \A k \in 1 .. Len(dets) :
            IsManualId(dets[k].id) => dets[k].id \notin ai

\* ------------------------------------------------------------------- C5
\* C5: every manually added region that a drag with start and end inside
\* the canvas stores lies inside the image: 0 <= x, 0 <= y,
\* x + width <= imageWidth and y + height <= imageHeight.
C5_ManualRegionInsideImage ==
  \A r \in 1 .. Len(dragStored) :
    \A k \in 1 .. Len(dragStored[r].detections) :
      LET d == dragStored[r].detections[k]
      IN IsManualId(d.id) =>
           /\ InsideCanvas(dragInput[1].start, dragInput[1].rect)
           /\ InsideCanvas(dragInput[1].end, dragInput[1].rect)
           /\ 0 <= d.x /\ 0 <= d.y
           /\ d.x + d.width <= ImgW
           /\ d.y + d.height <= ImgH

\* A drag whose rounded box is away from the origin and reaches the right
\* and the bottom edge of the image.
C5_Witness ==
  /\ dragStored # <<>>
  /\ \E k \in 1 .. Len(dragStored[1].detections) :
       LET d == dragStored[1].detections[k]
       IN /\ IsManualId(d.id)
          /\ d.x > 0 /\ d.y > 0
          /\ d.x + d.width = ImgW
          /\ d.y + d.height = ImgH

\* ------------------------------------------------------------------- C6
\* C6: compositing never mutates its inputs.  After any toggle, add,
\* delete, show-original and download, original_image_base64 and
\* processed_image_base64 of every result (and of the result the summary
\* modal holds) are what the backend returned; the download is rendered
\* on a canvas of its own, so the preview canvas still shows the preview
\* composite of the current state; and the original view shows the
\* original in every pixel.
C6_InputsNeverMutated ==
  /\ \A i \in 1 .. Len(results) :
       /\ results[i].original_image_base64 = OriginalUrl
       /\ results[i].processed_image_base64 = ProcessedUrl
  /\ showDownloadSummary # <<>> =>
       /\ showDownloadSummary[1].original_image_base64 = OriginalUrl
       /\ showDownloadSummary[1].processed_image_base64 = ProcessedUrl
  /\ mounted = "PreviewPanel" =>
       \A id \in ImageIds :
         /\ canvas[id] =
              drawCanvas(ResultOf(results, id), deletedDetections[id],
                         showOriginal[id], blurConfig.blurMode,
                         blurConfig.blurIntensity, blurConfig.emoji)
         /\ showOriginal[id] =>
              \A p \in Pixels : ShowsOriginal(canvas[id][p])

\* A download after a delete, an add and a toggle.
C6_Witness ==
  /\ mounted = "PreviewPanel"
  /\ download # <<>>
  /\ deletedDetections["img1"] # <<>>
  /\ \E k \in 1 .. Len(Detections("img1")) :
       /\ IsManualId(Detections("img1")[k].id)
       /\ ~Detections("img1")[k].enabled

\* ------------------------------------------------------------------- C7
\* C7: two runs from the same result and settings, given the same drags,
\* toggles and deletes, hold identical region lists (identifiers included)
\* and show identical composites.
C7_TwinRunsIdentical ==
  runs # <<>> =>
    /\ runs[1] = runs[2]
    /\ RunComposite(1) = RunComposite(2)

\* ------------------------------------------------------------------- C8
\* The intensities the overlay is compared at.
OverlayIntensities == {0, 50, 80, 100}

\* C8: in emoji mode the overlay of an enabled manually added region is
\* the caller-selected glyph in every pixel of the region's rectangle (and
\* nowhere else), whatever the glyph and whatever the intensity.
C8_EmojiOverlayIsGlyph ==
  \A id \in ImageIds : \A k \in 1 .. Len(Detections(id)) :
    LET det == Detections(id)[k]
        base == LoadImage(ProcessedUrl).pixels
    IN (mounted = "PreviewPanel" /\ det.enabled /\ IsManualId(det.id)) =>
         \A e \in Emojis : \A v \in OverlayIntensities :
           drawManualOverlay(base, det, "emoji", v, e) =
             [p \in Pixels |->
               IF InRect(p, Rect(det)) THEN Paint(base[p], e) ELSE base[p]]

\* ------------------------------------------------------------------- C9
\* C9: while a process request is in flight (issued, not settled) no step
\* changes the file list, the blur mode, the intensity, detect_faces or
\* detect_plates; and the request that is issued carries the values of
\* that moment.
C9_ConfigFrozenInFlight ==
  [][/\ network # <<>> => (files' = files /\ controls' = controls)
     /\ handleProcess =>
          LET body == network'[Len(network')].body
          IN /\ body.files = files
             /\ body.blur_mode = controls.blurMode
             /\ body.blur_intensity = ToString(controls.blurIntensity)
             /\ body.detect_faces = BoolToString(controls.detectFaces)
             /\ body.detect_plates = BoolToString(controls.detectPlates)]_vars

\* ------------------------------------------------------------------ C10
\* C10: the flags a request carries are the values of the two checkboxes
\* when it is issued; serving it invokes a detector only if its flag is
\* set, and every detector whose flag is set when the batch is processed;
\* with a flag off the results hold no region of that type.
C10_DetectorsFollowFlags ==
  [][/\ handleProcess =>
          LET body == network'[Len(network')].body
          IN /\ body.detect_faces = BoolToString(controls.detectFaces)
             /\ body.detect_plates = BoolToString(controls.detectPlates)
     /\ (\E outcome \in ServerOutcomes : ServerProcess(outcome)) =>
          LET s == served'[1]
              res == network'[Len(network')]
          IN /\ "face" \in s.invoked => s.body.detect_faces = "true"
             /\ "license_plate" \in s.invoked => s.body.detect_plates = "true"
             /\ res.ok =>
                  /\ s.body.detect_faces = "true" => "face" \in s.invoked
                  /\ s.body.detect_plates = "true" =>
                       "license_plate" \in s.invoked
             /\ \A i \in 1 .. Len(res.results) :
                  \A k \in 1 .. Len(res.results[i].detections) :
                    LET t == res.results[i].detections[k]
                    IN /\ t = "face" => s.body.detect_faces = "true"
                       /\ t = "license_plate" =>
                            s.body.detect_plates = "true"]_vars

\* A batch processed with detect_faces off and detect_plates on: the face
\* detector was not invoked, the plate detector was.
C10_Witness ==
  /\ served # <<>>
  /\ served[1].body.detect_faces = "false"
  /\ served[1].body.detect_plates = "true"
  /\ served[1].results # <<>>
  /\ served[1].invoked = {"license_plate"}

\* ========================================================= padding study
\* getPaddedRect on rectangles of 1 and 4 pixels a side that start up to
\* MaxPadReach pixels outside the image, under no padding, the default of 4
\* and the 6 the canvases pass.
InitPad ==
  /\ blurConfig = DefaultBlurConfig
  /\ PanelsInit
  /\ mounted = "PreviewPanel"
  /\ DragStudyOff
  /\ TwinStudyOff
  /\ pipeInput = <<>> /\ pipeResult = <<>>
  /\ SidesOff
  /\ HomeInit
  /\ \E x \in -MaxPadReach .. ImgW + MaxPadReach,
        y \in -MaxPadReach .. ImgH + MaxPadReach :
       \E w, h \in {1, 4} : \E pad \in {0, 4, DeletedPad} :
         padInput = <<[det |-> [x |-> x, y |-> y, width |-> w, height |-> h],
                       maxW |-> ImgW, maxH |-> ImgH, pad |-> pad]>>
  /\ padResult = <<>>

RunPad ==
  /\ padInput # <<>>
  /\ padResult = <<>>
  /\ padResult' = <<getPaddedRect(padInput[1].det, padInput[1].maxW,
                                  padInput[1].maxH, padInput[1].pad)>>
  /\ UNCHANGED <<padInput, pipeInput, pipeResult, previewVars, reviewVars,
                 blurConfig, download, mounted, dragVars, twinVars, homeVars,
                 sideVars>>

SpecPad == InitPad /\ [][RunPad]_vars

\* ======================================================== pipeline study
\* One invocation of the backend's detection pipeline on one image of
\* ImgW x ImgH pixels: geometry utilities, the two detector adapters, the
\* Region Reconciler, the Redaction Engine and the Orchestrator.
\* ---------------------------------------------------------------- geometry
\* clip(rect, imageWidth, imageHeight): the rectangle truncated to the image;
\* zero area when it lies outside.
clip(rect, imageWidth, imageHeight) ==
  LET x1 == Max(0, Min(rect.x, imageWidth))
      y1 == Max(0, Min(rect.y, imageHeight))
      x2 == Max(x1, Min(rect.x + rect.width, imageWidth))
      y2 == Max(y1, Min(rect.y + rect.height, imageHeight))
  IN [x |-> x1, y |-> y1, width |-> x2 - x1, height |-> y2 - y1]

Area(r) == r.width * r.height

\* The area two rectangles share.
IntersectionArea(a, b) ==
  LET w == Min(a.x + a.width, b.x + b.width) - Max(a.x, b.x)
      h == Min(a.y + a.height, b.y + b.height) - Max(a.y, b.y)
  IN IF w > 0 /\ h > 0 THEN w * h ELSE 0

\* The duplicate threshold of the Reconciler, 0.5, as a fraction.
IouThreshold == [num |-> 1, den |-> 2]

\* iou(a, b) < threshold; the IoU of a zero-area rectangle is 0.
IouBelowThreshold(a, b) ==
  LET inter == IntersectionArea(a, b)
      union == Area(a) + Area(b) - inter
  IN IF Area(a) = 0 \/ Area(b) = 0 THEN TRUE
     ELSE inter * IouThreshold.den < union * IouThreshold.num

\* -------------------------------------------------------------- reconciler
\* Step 1: every raw region clipped to the image, those of zero area dropped.
RECURSIVE ClipAll(_)
ClipAll(raw) ==
  IF raw = <<>> THEN <<>>
  ELSE LET r == Head(raw)
           c == clip(Rect(r), ImgW, ImgH)
       IN (IF Area(c) = 0 THEN <<>>
           ELSE <<[r EXCEPT !.x = c.x, !.y = c.y, !.width = c.width,
                            !.height = c.height]>>)
          \o ClipAll(Tail(raw))

\* Stable sort by descending confidence.
RECURSIVE SortByConfidence(_)
SortByConfidence(rs) ==
  IF rs = <<>> THEN <<>>
  ELSE LET best == CHOOSE k \in 1 .. Len(rs) :
                     /\ \A j \in 1 .. Len(rs) :
                          rs[j].confidence <= rs[k].confidence
                     /\ \A j \in 1 .. k - 1 :
                          rs[j].confidence < rs[k].confidence
           rest == [j \in 1 .. Len(rs) - 1 |->
                     IF j < best THEN rs[j] ELSE rs[j + 1]]
       IN <<rs[best]>> \o SortByConfidence(rest)

\* Duplicate suppression that compares a region with every region kept
\* before it, whatever its type.
RECURSIVE SuppressDuplicates_AcrossTypes(_, _)
SuppressDuplicates_AcrossTypes(sorted, kept) ==
  IF sorted = <<>> THEN kept
  ELSE LET r == Head(sorted)
       IN SuppressDuplicates_AcrossTypes(
            Tail(sorted),
            IF \A k \in 1 .. Len(kept) : IouBelowThreshold(Rect(r), Rect(kept[k]))
            THEN Append(kept, r) ELSE kept)

\* Step 2: going down the sorted list, a region is kept when its IoU with
\* every region of its type kept before it is below the threshold.
RECURSIVE SuppressDuplicates(_, _)
SuppressDuplicates(sorted, kept) ==
  IF sorted = <<>> THEN kept
  ELSE LET r == Head(sorted)
       IN SuppressDuplicates(
            Tail(sorted),
            IF \A k \in 1 .. Len(kept) :
                 kept[k].detection_type = r.detection_type =>
                   IouBelowThreshold(Rect(r), Rect(kept[k]))
            THEN Append(kept, r) ELSE kept)

\* Steps 3 and 4: identifiers unique within the result, enabled = true.
Reconcile(raw) ==
  LET kept == SuppressDuplicates(SortByConfidence(ClipAll(raw)), <<>>)
  IN [k \in 1 .. Len(kept) |->
       [id |-> kept[k].detection_type \o "_" \o ToString(k),
        x |-> kept[k].x, y |-> kept[k].y,
        width |-> kept[k].width, height |-> kept[k].height,
        confidence |-> kept[k].confidence,
        detection_type |-> kept[k].detection_type,
        enabled |-> TRUE]]

\* ------------------------------------------------- detectors, redaction
RawRegion(x, y, w, h, confidence, type) ==
  [x |-> x, y |-> y, width |-> w, height |-> h, confidence |-> confidence,
   detection_type |-> type]

\* What the detectors find in the picture.  Faces: two boxes on one face
\* (IoU 0.6), a face cut by the image's corner, a box outside the image.
\* Plates: a box equal to the first face box, and one that overlaps it with
\* IoU 9 / 19.
FaceRaws ==
  {<<>>,
   <<RawRegion(1, 0, 4, 4, 80, "face"), RawRegion(0, 0, 4, 4, 95, "face")>>,
   <<RawRegion(0, 0, 4, 4, 95, "face"),
     RawRegion(ImgW - 2, ImgH - 2, 4, 4, 70, "face"),
     RawRegion(ImgW + 8, ImgH + 9, 2, 2, 60, "face")>>}
PlateRaws ==
  {<<>>,
   <<RawRegion(0, 0, 4, 4, 60, "license_plate")>>,
   <<RawRegion(0, 0, 4, 4, 60, "license_plate"),
     RawRegion(1, 1, 4, 3, 55, "license_plate")>>}

\* The detectors the configuration asks for.
Requested(config) ==
  (IF config.detect_faces THEN {"face"} ELSE {})
    \cup (IF config.detect_plates THEN {"license_plate"} ELSE {})

\* The requested detectors that failed to run.
FailedDetectors(input) == {t \in Requested(input.config) : input.fails[t]}

\* The raw regions of the requested detectors that completed, faces first.
CombinedRaw(input) ==
  LET done == Requested(input.config) \ FailedDetectors(input)
  IN (IF "face" \in done THEN input.faces ELSE <<>>)
       \o (IF "license_plate" \in done THEN input.plates ELSE <<>>)

\* redact(image, regions, config): every enabled region whose rendering
\* succeeds is obscured in a new buffer; the others keep the original.
redact(regions, renderFails) ==
  ImageOf([p \in Pixels |->
    IF \E k \in 1 .. Len(regions) :
         /\ regions[k].enabled
         /\ k \notin renderFails
         /\ InRect(p, Rect(regions[k]))
    THEN ObscuredPixel ELSE OriginalPixel])

\* process that gives up as soon as one requested detector fails.
process_FailsOnAny(input) ==
  IF FailedDetectors(input) # {}
  THEN [ok |-> FALSE, error |-> "AllDetectorsFailed", regions |-> <<>>,
        warnings |-> {}, render_failed |-> {},
        image |-> OriginalImage]
  ELSE LET regions == Reconcile(CombinedRaw(input))
       IN [ok |-> TRUE, error |-> "", regions |-> regions,
           warnings |-> {},
           render_failed |-> {regions[k].id :
                                k \in input.renderFails \cap DOMAIN regions},
           image |-> redact(regions, input.renderFails)]

\* process(image, config): AllDetectorsFailed when detectors were requested
\* and every one of them failed; otherwise the result, with a
\* degraded-detection warning for each failed detector and the regions
\* whose redaction failed flagged.
process(input) ==
  IF /\ Requested(input.config) # {}
     /\ FailedDetectors(input) = Requested(input.config)
  THEN [ok |-> FALSE, error |-> "AllDetectorsFailed", regions |-> <<>>,
        warnings |-> {}, render_failed |-> {},
        image |-> OriginalImage]
  ELSE LET regions == Reconcile(CombinedRaw(input))
       IN [ok |-> TRUE, error |-> "", regions |-> regions,
           warnings |-> {[kind |-> "DetectorUnavailable", detector |-> t] :
                           t \in FailedDetectors(input)},
           render_failed |-> {regions[k].id :
                                k \in input.renderFails \cap DOMAIN regions},
           image |-> redact(regions, input.renderFails)]

\* One invocation: any configuration, any detector failing, any of the
\* pictures' findings, the first region's redaction failing or none.
InitPipeline ==
  /\ blurConfig = DefaultBlurConfig
  /\ PanelsInit
  /\ mounted = "PreviewPanel"
  /\ DragStudyOff
  /\ TwinStudyOff
  /\ padInput = <<>> /\ padResult = <<>>
  /\ SidesOff
  /\ HomeInit
  /\ \E df, dp, ff, pf \in BOOLEAN : \E fr \in FaceRaws, pr \in PlateRaws :
       \E rf \in {{}, {1}} :
         pipeInput = <<[config |-> [detect_faces |-> df, detect_plates |-> dp],
                        fails |-> [t \in {"face", "license_plate"} |->
                                    IF t = "face" THEN ff ELSE pf],
                        faces |-> fr, plates |-> pr, renderFails |-> rf]>>
  /\ pipeResult = <<>>

RunPipeline ==
  /\ pipeInput # <<>>
  /\ pipeResult = <<>>
  /\ pipeResult' = <<process(pipeInput[1])>>
  /\ UNCHANGED <<pipeInput, previewVars, reviewVars, blurConfig, download,
                 mounted, dragVars, twinVars, padInput, padResult,
                 homeVars, sideVars>>

SpecPipeline == InitPipeline /\ [][RunPipeline]_vars

\* ------------------------------------------------------------------ C11
\* C11: an invocation in which a requested detector failed and another
\* requested detector completed succeeds, with no region of the failed
\* detector's type and a degraded-detection warning for it; an invocation
\* fails, with AllDetectorsFailed, exactly when detectors were requested
\* and every one of them failed.
C11_DegradedNotFailed ==
  pipeResult # <<>> =>
    LET input == pipeInput[1]
        r == pipeResult[1]
        requested == Requested(input.config)
        failed == {t \in requested : input.fails[t]}
    IN /\ ~r.ok <=> (failed # {} /\ failed = requested)
       /\ ~r.ok => r.error = "AllDetectorsFailed"
       /\ r.ok =>
            /\ \A t \in failed :
                 /\ \A k \in 1 .. Len(r.regions) :
                      r.regions[k].detection_type # t
                 /\ \E w \in r.warnings : w.detector = t
            /\ \A w \in r.warnings : w.detector \in failed

\* The face detector failed, the plate detector completed and found plates.
C11_Witness ==
  /\ pipeResult # <<>>
  /\ pipeInput[1].config = [detect_faces |-> TRUE, detect_plates |-> TRUE]
  /\ pipeInput[1].fails["face"]
  /\ ~pipeInput[1].fails["license_plate"]
  /\ pipeInput[1].faces # <<>>
  /\ pipeResult[1].ok
  /\ Len(pipeResult[1].regions) = 2

\* ------------------------------------------------------------------ C12
\* C12: when one image of a batch of several fails on its own, the page
\* receives the results of the remaining images and a failure is reported
\* for the failed image: once the response has settled, the results held
\* are those of the images that succeeded and the page shows a failure
\* (its error display, the only place where Home shows one).
C12_FailedImageReported ==
  [][(/\ served # <<>>
      /\ served[1].failed # {}
      /\ network # <<>>
      /\ Head(network).kind = "response"
      /\ network' = Tail(network))
     => /\ homeResults' = served[1].results
        /\ ErrorPanel' # "none"]_vars

\* ------------------------------------------------------------------ C13
\* lib/api ProcessedImageResult and BoundingBox: what a caller receives of
\* an invocation's result, the image and the region list with the fields
\* id, x, y, width, height, confidence, detection_type and enabled.
ToProcessedImageResult(r) ==
  [processed_image |-> r.image,
   detections |-> [k \in 1 .. Len(r.regions) |->
                    [id |-> r.regions[k].id,
                     x |-> r.regions[k].x,
                     y |-> r.regions[k].y,
                     width |-> r.regions[k].width,
                     height |-> r.regions[k].height,
                     confidence |-> r.regions[k].confidence,
                     detection_type |-> r.regions[k].detection_type,
                     enabled |-> r.regions[k].enabled]]]

\* C13: when the redaction of a region failed, the region list the caller
\* receives differs from the list of the same invocation with every region
\* protected, so that the caller can tell the two apart.
C13_RenderFailureVisible ==
  (pipeResult # <<>> /\ pipeResult[1].ok /\ pipeResult[1].render_failed # {})
    => ToProcessedImageResult(pipeResult[1]).detections
         # ToProcessedImageResult(
             process([pipeInput[1] EXCEPT !.renderFails = {}])).detections

\* ------------------------------------------------------------------ C14
\* C14: in the region list of every invocation, any two distinct regions of
\* one type have an IoU below the threshold; regions of different types
\* are never suppressed against each other: every raw region that was
\* left out is outside the image or has an IoU of at least the threshold
\* with a kept region of its own type and at least its confidence.
C14_DedupWithinType ==
  (pipeResult # <<>> /\ pipeResult[1].ok) =>
    LET regions == pipeResult[1].regions
        clipped == ClipAll(CombinedRaw(pipeInput[1]))
    IN /\ \A j, k \in 1 .. Len(regions) :
            (j # k /\ regions[j].detection_type = regions[k].detection_type)
              => IouBelowThreshold(Rect(regions[j]), Rect(regions[k]))
       /\ \A i \in 1 .. Len(clipped) :
            \/ \E k \in 1 .. Len(regions) :
                 /\ Rect(regions[k]) = Rect(clipped[i])
                 /\ regions[k].detection_type = clipped[i].detection_type
            \/ \E k \in 1 .. Len(regions) :
                 /\ regions[k].detection_type = clipped[i].detection_type
                 /\ regions[k].confidence >= clipped[i].confidence
                 /\ ~IouBelowThreshold(Rect(regions[k]), Rect(clipped[i]))

\* A face box and a plate box that coincide are both in the list, and the
\* second box on the same face is not.
C14_Witness ==
  /\ pipeResult # <<>>
  /\ pipeResult[1].ok
  /\ Len(pipeInput[1].faces) = 2
  /\ Len(pipeResult[1].regions) = 3
  /\ \E j, k \in 1 .. Len(pipeResult[1].regions) :
       /\ pipeResult[1].regions[j].detection_type = "face"
       /\ pipeResult[1].regions[k].detection_type = "license_plate"
       /\ Rect(pipeResult[1].regions[j]) = Rect(pipeResult[1].regions[k])

\* ------------------------------------------------------------------ C15
\* C15: through every drop, browse, remove and clear-all the file list
\* holds at most maxFiles (10) files; a drop or browse keeps the files held
\* before, in order, and adds the first valid files of the selection, in
\* order, as many as fit.
C15_AtMostMaxFiles ==
  [][/\ Len(files') <= HomeMaxFiles
     /\ \A d \in UploadBatches :
          (handleDrop(d) \/ handleInputChange(d)) =>
            LET valid == validateFiles(d).valid
                added == Len(files') - Len(files)
            IN /\ added = Min(Len(valid), HomeMaxFiles - Len(files))
               /\ SubSeq(files', 1, Len(files)) = files
               /\ SubSeq(files', Len(files) + 1, Len(files')) =
                    SubSeq(valid, 1, added)]_vars

\* Nine files were held and two valid files selected: the list is full,
\* ends with the first of the two, and the second was left out.
C15_Witness ==
  /\ Len(files) = HomeMaxFiles
  /\ files[HomeMaxFiles - 1] = LargeFile
  /\ files[HomeMaxFiles] = PhotoFile

\* ------------------------------------------------------------------ C16
\* The rule of the upload zone: JPG, PNG or WEBP, and at most 10 MB.
MeetsUploadRule(file) ==
  /\ file.type \in {"image/jpeg", "image/png", "image/webp"}
  /\ file.size <= 10485760

\* C16: every file in the list meets the rule; after a drop or browse the
\* messages shown are one for each file of the selection that does not meet
\* it, naming that file; and a selection in which no file meets it leaves
\* the list as it was.
C16_OnlyValidFilesEnter ==
  [][/\ \A k \in 1 .. Len(files') : MeetsUploadRule(files'[k])
     /\ \A d \in UploadBatches :
          (handleDrop(d) \/ handleInputChange(d)) =>
            LET rejected == {i \in 1 .. Len(d) : ~MeetsUploadRule(d[i])}
            IN /\ Len(uploadErrors') = Cardinality(rejected)
               /\ \A i \in rejected :
                    Cardinality(
                      {k \in 1 .. Len(uploadErrors') :
                         /\ Len(uploadErrors'[k]) > Len(d[i].name)
                         /\ SubSeq(uploadErrors'[k], 1, Len(d[i].name) + 1)
                              = d[i].name \o ":"}) = 1
               /\ Cardinality(rejected) = Len(d) => files' = files]_vars

\* Files are held, and the last selection was the one of a picture over
\* 10 MB and a text file: two messages, the list as before.
C16_Witness ==
  /\ Len(files) = 3
  /\ Len(uploadErrors) = 2
  /\ \A k \in 1 .. Len(files) : files[k].size <= MaxFileSize

\* ------------------------------------------------------------------ C17
\* A response that is not ok settles.
SettlesError ==
  /\ network # <<>>
  /\ Head(network).kind = "response"
  /\ ~Head(network).ok
  /\ network' = Tail(network)

\* The mutation the page observes is the one this response belongs to.
SettlesCurrent ==
  processMutation.status = "pending" /\ processMutation.id = Head(network).id

\* C17 as stated: for every response that is not 2xx, processImages rejects
\* with the body's detail, or with 'HTTP error <status>' when the body holds
\* no detail, and the results displayed stay as they were.
C17_ErrorIsDetailOrStatus ==
  [][SettlesError =>
       LET res == Head(network)
           message == IF res.json /\ res.detail # <<>> THEN res.detail[1]
                      ELSE "HTTP error " \o ToString(res.status)
       IN /\ ResponseErrorMessage(res) = message
          /\ SettlesCurrent => processMutation'.error = message
          /\ homeResults' = homeResults]_vars

\* C17, amended: for every response that is not 2xx, processImages rejects
\* with the body's detail when the body is JSON and holds one, with
\* 'HTTP error <status>' when the body is JSON and holds none, and with
\* 'Unknown error' when the body is not JSON; the results displayed stay as
\* they were.
C17_ErrorIsDetailStatusOrUnknown ==
  [][SettlesError =>
       LET res == Head(network)
           message == IF ~res.json THEN "Unknown error"
                      ELSE IF res.detail # <<>> THEN res.detail[1]
                      ELSE "HTTP error " \o ToString(res.status)
       IN /\ ResponseErrorMessage(res) = message
          /\ SettlesCurrent => processMutation'.error = message
          /\ homeResults' = homeResults]_vars

\* Results are shown, a second request ended with a body that is not JSON,
\* and the results are still shown.
C17_Witness ==
  /\ processMutation.status = "error"
  /\ processMutation.error = "Unknown error"
  /\ homeResults # <<>>

\* ------------------------------------------------------------------ C18
\* C18: after a 429 with the documented body, whose detail is "Rate limit
\* exceeded. Maximum 5 batches per day.", the page shows the 'Daily limit
\* reached' panel with its 'Request Extra Quota' button, not the
\* 'Processing failed' panel.
C18_RateLimitShowsQuotaPanel ==
  (/\ processMutation.status = "error"
   /\ processMutation.error = "Rate limit exceeded. Maximum 5 batches per day.")
    => ErrorPanel = "Daily limit reached (BETA)"

\* ------------------------------------------------------------------ C19
\* The rectangle shares pixels with the image of maxW x maxH.
IntersectsImage(det, maxW, maxH) ==
  /\ det.x < maxW /\ det.x + det.width > 0
  /\ det.y < maxH /\ det.y + det.height > 0

\* C19: for every det that intersects the image, what getPaddedRect
\* returns is det grown by pad on each side and clipped to the image: it
\* lies within [0, maxW] x [0, maxH] and contains the part of det that is
\* inside the image.
C19_PaddedRectInsideImage ==
  (padResult # <<>>
     /\ IntersectsImage(padInput[1].det, padInput[1].maxW, padInput[1].maxH))
    => LET in == padInput[1]
           det == in.det
           r == padResult[1]
           grown == [x |-> det.x - in.pad, y |-> det.y - in.pad,
                     width |-> det.width + 2 * in.pad,
                     height |-> det.height + 2 * in.pad]
       IN /\ r = clip(grown, in.maxW, in.maxH)
          /\ 0 <= r.x /\ r.x + r.width <= in.maxW
          /\ 0 <= r.y /\ r.y + r.height <= in.maxH
          /\ r.width >= 0 /\ r.height >= 0
          /\ r.x <= Max(0, det.x)
          /\ r.x + r.width >= Min(in.maxW, det.x + det.width)
          /\ r.y <= Max(0, det.y)
          /\ r.y + r.height >= Min(in.maxH, det.y + det.height)

\* A rectangle that sticks out of the image's right edge, padded by 6.
C19_Witness ==
  /\ padResult # <<>>
  /\ padInput[1].pad = DeletedPad
  /\ padInput[1].det.x = ImgW - 1
  /\ padInput[1].det.width = 4
  /\ padInput[1].det.y = 2
  /\ padResult[1].x + padResult[1].width = ImgW
  /\ padResult[1].width = DeletedPad + 1

\* ------------------------------------------------------------------ C20
\* C20: for a rectangle that lies entirely outside the image getPaddedRect
\* returns a width and a height that are not negative and a zero area.
C20_OutsideGivesEmptyRect ==
  (padResult # <<>>
     /\ ~IntersectsImage(padInput[1].det, padInput[1].maxW, padInput[1].maxH))
    => /\ padResult[1].width >= 0
       /\ padResult[1].height >= 0
       /\ padResult[1].width * padResult[1].height = 0

\* ------------------------------------------------------------------ C21
\* C21: a gesture on the preview canvas has at most one effect.  A pointer
\* up after a long press that deleted changes nothing; a pointer up without
\* a drag changes at most one enabled flag and the number of regions not
\* at all; a pointer up after a drag adds at most one region; the long
\* press deletes only while the pointer is down, has not left and has not
\* moved more than 4 px; and no step changes the region list of an image
\* that is not in edit mode.
C21_OneEffectPerGesture ==
  [][\A id \in ImageIds :
       /\ (handlePointerUp(id) /\ pointer[id].longPressTriggered)
            => results' = results
       /\ (handlePointerUp(id) /\ ~pointer[id].isDragging)
            => Len(Detections(id)') = Len(Detections(id))
       /\ handlePointerUp(id)
            => /\ Len(Detections(id)') <= Len(Detections(id)) + 1
               /\ deletedDetections' = deletedDetections
       /\ deletedDetections'[id] # deletedDetections[id]
            => /\ pointer[id].dragStart # <<>>
               /\ ~pointer[id].isDragging
               /\ ~pointer[id].longPressTriggered
       /\ Detections(id)' # Detections(id) => editMode[id]]_vars

\* The page outside the studies below, at rest.
BaseInit ==
  /\ blurConfig = DefaultBlurConfig
  /\ PanelsInit
  /\ mounted = "PreviewPanel"
  /\ DragStudyOff
  /\ TwinStudyOff
  /\ padInput = <<>> /\ padResult = <<>>
  /\ pipeInput = <<>> /\ pipeResult = <<>>
  /\ HomeInit

BaseFrame ==
  UNCHANGED <<previewVars, reviewVars, blurConfig, download, mounted,
              dragVars, twinVars, padInput, padResult, pipeInput,
              pipeResult, homeVars>>

\* ========================================================= archive study
\* PreviewPanel.tsx on two processed images with one detected face each:
\* the chips of edit mode, the single download through the summary modal
\* and 'Download All (ZIP)'.  UploadZone accepts two files of one name, so
\* the second result has the first one's original_filename or another.
PanelResult(imageId, filename) ==
  [SceneResult EXCEPT !.image_id = imageId, !.original_filename = filename]

PanelImageIds == {"img1", "img2"}

InitZip ==
  /\ BaseInit
  /\ ToggleStudyOff
  /\ quotaData = <<>>
  /\ ModalsClosed
  /\ \E name \in {"photo.jpg", "beach.jpg"} :
       panelResults = <<PanelResult("img1", "photo.jpg"),
                        PanelResult("img2", name)>>
  /\ panelEditMode = [id \in PanelImageIds |-> FALSE]
  /\ panelSummary = <<>>
  /\ downloadingZip = FALSE
  /\ zipBuild = <<>>
  /\ exported = <<>>

ZipFrame == BaseFrame /\ UNCHANGED <<toggleVars, quotaData, modalVars>>

\* getTotals(result): facesDisabled > 0 || platesDisabled > 0
hasDisabled(result) ==
  \E k \in 1 .. Len(result.detections) : ~result.detections[k].enabled

\* The Edit button of an image card.
Panel_ToggleEditMode(id) ==
  /\ panelSummary = <<>>
  /\ panelEditMode' = [panelEditMode EXCEPT ![id] = ~panelEditMode[id]]
  /\ UNCHANGED <<panelResults, panelSummary, downloadingZip, zipBuild,
                 exported>>
  /\ ZipFrame

\* A detection chip: disabled={!editMode[result.image_id]},
\* onClick={() => toggleDetection(result.image_id, det.id, idx)}.
Panel_ChipClick(id, k) ==
  /\ panelSummary = <<>>
  /\ panelEditMode[id]
  /\ k \in 1 .. Len(ResultOf(panelResults, id).detections)
  /\ panelResults' =
       toggleDetection(panelResults, id,
                       ResultOf(panelResults, id).detections[k].id, k)
  /\ UNCHANGED <<panelEditMode, panelSummary, downloadingZip, zipBuild,
                 exported>>
  /\ ZipFrame

\* handleDownloadSingle(result): setShowDownloadSummary(result).
Panel_handleDownloadSingle(id) ==
  /\ panelSummary = <<>>
  /\ panelSummary' = <<ResultOf(panelResults, id)>>
  /\ UNCHANGED <<panelResults, panelEditMode, downloadingZip, zipBuild,
                 exported>>
  /\ ZipFrame

\* The backdrop of the summary modal.
Panel_CloseSummary ==
  /\ panelSummary # <<>>
  /\ panelSummary' = <<>>
  /\ UNCHANGED <<panelResults, panelEditMode, downloadingZip, zipBuild,
                 exported>>
  /\ ZipFrame

\* 'Review Again'.
Panel_ReviewAgain ==
  /\ panelSummary # <<>>
  /\ panelSummary' = <<>>
  /\ panelEditMode' = [panelEditMode EXCEPT ![panelSummary[1].image_id] = TRUE]
  /\ UNCHANGED <<panelResults, downloadingZip, zipBuild, exported>>
  /\ ZipFrame

\* 'Download' in the summary modal: confirmDownload(showDownloadSummary).
Panel_confirmDownload ==
  /\ panelSummary # <<>>
  /\ exported' =
       <<[filename |-> "protected_" \o panelSummary[1].original_filename,
          of |-> <<panelSummary[1]>>,
          entries |->
            <<[name |-> "protected_" \o panelSummary[1].original_filename,
               data |-> renderCompositeDataUrl(
                          panelSummary[1], <<>>, blurConfig.blurMode,
                          blurConfig.blurIntensity, blurConfig.emoji)]>>]>>
  /\ panelSummary' = <<>>
  /\ UNCHANGED <<panelResults, panelEditMode, downloadingZip, zipBuild>>
  /\ ZipFrame

\* zip.file(name, data): JSZip keeps one entry per name, the last written.
ZipFile(zip, name, data) ==
  IF \E i \in 1 .. Len(zip) : zip[i].name = name
  THEN [i \in 1 .. Len(zip) |->
         IF zip[i].name = name THEN [name |-> name, data |-> data]
         ELSE zip[i]]
  ELSE Append(zip, [name |-> name, data |-> data])

\* 'Download All (ZIP)', disabled={downloadingZip}: handleDownloadAll up to
\* its first await.  The loop runs over the results of this render.
handleDownloadAll ==
  /\ panelSummary = <<>>
  /\ ~downloadingZip
  /\ Len(panelResults) # 0
  /\ downloadingZip' = TRUE
  /\ zipBuild' = <<[results |-> panelResults, next |-> 1, zip |-> <<>>]>>
  /\ UNCHANGED <<panelResults, panelEditMode, panelSummary, exported>>
  /\ ZipFrame

\* One turn of the loop: the composite of the next result is written under
\* protected_<original_filename>.
ZipAddNext ==
  /\ zipBuild # <<>>
  /\ zipBuild[1].next <= Len(zipBuild[1].results)
  /\ LET result == zipBuild[1].results[zipBuild[1].next]
     IN zipBuild' =
          <<[zipBuild[1] EXCEPT
               !.next = @ + 1,
               !.zip = ZipFile(@, "protected_" \o result.original_filename,
                               renderCompositeDataUrl(
                                 result, <<>>, blurConfig.blurMode,
                                 blurConfig.blurIntensity, blurConfig.emoji))]>>
  /\ UNCHANGED <<panelResults, panelEditMode, panelSummary, downloadingZip,
                 exported>>
  /\ ZipFrame

\* zip.generateAsync settles: saveAs(blob, "protected_images.zip") when it
\* resolved, console.error when it rejected; finally setDownloadingZip(false).
ZipSettle(resolved) ==
  /\ zipBuild # <<>>
  /\ zipBuild[1].next > Len(zipBuild[1].results)
  /\ exported' = IF resolved
                 THEN <<[filename |-> "protected_images.zip",
                         of |-> zipBuild[1].results,
                         entries |-> zipBuild[1].zip]>>
                 ELSE exported
  /\ downloadingZip' = FALSE
  /\ zipBuild' = <<>>
  /\ UNCHANGED <<panelResults, panelEditMode, panelSummary>>
  /\ ZipFrame

NextZip ==
  \/ \E id \in PanelImageIds : Panel_ToggleEditMode(id)
  \/ \E id \in PanelImageIds : Panel_ChipClick(id, 1)
  \/ \E id \in PanelImageIds : Panel_handleDownloadSingle(id)
  \/ Panel_CloseSummary
  \/ Panel_ReviewAgain
  \/ Panel_confirmDownload
  \/ handleDownloadAll
  \/ ZipAddNext
  \/ \E resolved \in BOOLEAN : ZipSettle(resolved)

SpecZip == InitZip /\ [][NextZip]_vars

\* ------------------------------------------------------------------ C22
\* C22: every export of an image that has a disabled detection is preceded
\* by the warning and the user's confirmation.  A step that saves a file
\* (the single download or the archive) holding an image with a disabled
\* detection is taken from the summary modal, which shows that image and
\* therefore the warning, by its 'Download' button.
C22_ExportWarned ==
  [][((Panel_confirmDownload \/ ZipSettle(TRUE))
        /\ \E k \in 1 .. Len(exported'[1].of) : hasDisabled(exported'[1].of[k]))
       => /\ panelSummary # <<>>
          /\ hasDisabled(panelSummary[1])
          /\ exported'[1].of = <<panelSummary[1]>>]_vars

\* ------------------------------------------------------------------ C23
\* C23: the image ReviewPanel exports never contains the overlays of edit
\* mode, and after the export editMode is what it was when the download
\* was started.  When the timer of downloadImage fires, the file it saves
\* is the canvas as drawCanvas paints it with editMode false (under the
\* settings of its last redraw), and editMode becomes the wasEditMode the
\* timer remembers.
C23_ExportWithoutOverlays ==
  [][DownloadTimerFire =>
       /\ \E cfg \in BlurConfigs :
            download'[1].image =
              ImageOf(ReviewPanel_drawCanvas(ReviewResult, detections,
                                             reviewShowOriginal, FALSE,
                                             cfg.blurMode, cfg.emoji))
       /\ reviewEditMode' = Head(downloadTimers)]_vars

\* ========================================================== toggle study
\* One toggle on a panel that shows two images, the first with a face and
\* a plate region that both hold the clicked point.  The regions carry
\* the ids the backend gave them or none (API_SPEC.md's BoundingBox has
\* no id); the toggle comes from a chip or from a click on the image.

\* The image onClick and the chip onClick of the panel in
\* QuotaRequestModal.tsx: r.detections.map(d => d.id === clickedDet.id ?
\* { ...d, enabled: !d.enabled } : d) on the result of that image.  A
\* missing id equals a missing id.
toggleById(rs, imageId, detectionId) ==
  [i \in 1 .. Len(rs) |->
    IF rs[i].image_id = imageId
    THEN [rs[i] EXCEPT !.detections =
           [k \in 1 .. Len(rs[i].detections) |->
             LET d == rs[i].detections[k]
             IN IF d.id = detectionId
                THEN [d EXCEPT !.enabled = ~d.enabled] ELSE d]]
    ELSE rs[i]]

OverlappingDetections(faceId, plateId, faceOn, plateOn) ==
  <<[SceneDetections[1] EXCEPT !.id = faceId, !.enabled = faceOn],
    [id |-> plateId, x |-> 0, y |-> 0, width |-> 6, height |-> 6,
     confidence |-> 90, detection_type |-> "license_plate",
     enabled |-> plateOn]>>

InitToggle ==
  /\ BaseInit
  /\ ZipStudyOff
  /\ quotaData = <<>>
  /\ ModalsClosed
  /\ \E faceId \in {NoId, "f0", "d0"}, plateId \in {NoId, "p0", "d0"} :
       \E faceOn, plateOn \in BOOLEAN : \E k \in 0 .. 2 :
         toggleInput =
           <<[results |->
                <<[PanelResult("img1", "photo.jpg") EXCEPT !.detections =
                     OverlappingDetections(faceId, plateId, faceOn, plateOn)],
                  [PanelResult("img2", "beach.jpg") EXCEPT !.detections =
                     OverlappingDetections(faceId, plateId, faceOn, plateOn)]>>,
              chip |-> k]>>
  /\ toggleResult = <<>>

\* The toggle: chip k of the first image, or (chip 0) a click at
\* PointOnFace on it.  panel is the results PreviewPanel.tsx reports
\* (handleCanvasClick / chip -> toggleDetection), inline those of the panel
\* in QuotaRequestModal.tsx.
RunToggle ==
  /\ toggleInput # <<>>
  /\ toggleResult = <<>>
  /\ LET rs == toggleInput[1].results
         dets == rs[1].detections
         k == IF toggleInput[1].chip # 0 THEN toggleInput[1].chip
              ELSE HitIndex(dets, PointOnFace[1], PointOnFace[2], CanvasRect)
     IN toggleResult' =
          <<[clicked |-> k,
             panel |-> toggleDetection(rs, "img1", dets[k].id, k),
             inline |-> toggleById(rs, "img1", dets[k].id)]>>
  /\ UNCHANGED toggleInput
  /\ BaseFrame
  /\ UNCHANGED <<zipVars, quotaData, modalVars>>

SpecToggle == InitToggle /\ [][RunToggle]_vars

\* The regions of rs whose enabled differs in after, as <<image, index>>.
Flipped(rs, after) ==
  {ik \in (1 .. Len(rs)) \X (1 .. 2) :
     after[ik[1]].detections[ik[2]].enabled
       # rs[ik[1]].detections[ik[2]].enabled}

\* ------------------------------------------------------------------ C24
\* C24: one toggle flips exactly one region of exactly one image, also
\* when regions overlap at the clicked point and when regions carry no id
\* or share an id: after the toggle exactly the clicked region of the
\* first image has another enabled, in both panels.
C24_ToggleFlipsOne ==
  toggleResult # <<>> =>
    /\ Flipped(toggleInput[1].results, toggleResult[1].panel)
         = {<<1, toggleResult[1].clicked>>}
    /\ Flipped(toggleInput[1].results, toggleResult[1].inline)
         = {<<1, toggleResult[1].clicked>>}

C26_OneRequestAtATime ==
  [][handleProcess =>
       /\ files # <<>>
       /\ network = <<>>
       /\ ~(quotaData # <<>> /\ quotaData[1].remaining = 0)
       /\ Len(network') <= 1]_vars

\* ------------------------------------------------------------------ C27
\* C27: after 'Start Over' the files and the results are empty and stay so
\* until the user selects files again and issues a new process request; the
\* response to a request issued before the reset never repopulates the
\* results.  A step that leaves the file list as it is and settles no
\* request the page is waiting for keeps empty results empty.
C27_ResetStaysEmpty ==
  [][/\ Home_handleReset => (files' = <<>> /\ homeResults' = <<>>)
     /\ (homeResults = <<>> /\ homeResults' # <<>>)
          => /\ Settle
             /\ processMutation.status = "pending"
             /\ processMutation.id = Head(network).id]_vars

\* ====================================================== quota request modal
\* Home with the daily quota and QuotaRequestModal: the amber panel opens
\* the modal, the form sends requestExtraQuota, the backend accepts it,
\* answers with an error status or cannot be reached.
QuotaFrame ==
  /\ BaseFrame
  /\ UNCHANGED <<zipVars, toggleVars, feedback, feedbackNet, feedbackTimers>>

\* 'Request Extra Quota (Free)', rendered when quotaQuery.data?.remaining
\* === 0 && !processMutation.isError: setQuotaModalOpen(true).
OpenQuotaModal ==
  /\ ~quotaModal.isOpen
  /\ quotaData # <<>> /\ quotaData[1].remaining = 0
  /\ processMutation.status # "error"
  /\ quotaModal' = [quotaModal EXCEPT !.isOpen = TRUE]
  /\ UNCHANGED <<quotaNet, quotaData>>
  /\ QuotaFrame

\* The select of the form: setUseCase(e.target.value).
setUseCase(value) ==
  /\ quotaModal.isOpen
  /\ ~quotaModal.submitted
  /\ quotaModal' = [quotaModal EXCEPT !.useCase = value]
  /\ UNCHANGED <<quotaNet, quotaData>>
  /\ QuotaFrame

\* The email input of the form: setEmail(e.target.value).
setEmail(value) ==
  /\ quotaModal.isOpen
  /\ ~quotaModal.submitted
  /\ quotaModal' = [quotaModal EXCEPT !.email = value]
  /\ UNCHANGED <<quotaNet, quotaData>>
  /\ QuotaFrame

\* QuotaRequestModal.handleSubmit up to its await; the submit button is
\* disabled={!useCase || isSubmitting}.  Home's onSubmit calls
\* requestExtraQuota(useCase, email).
QuotaModal_handleSubmit ==
  /\ quotaModal.isOpen
  /\ ~quotaModal.submitted
  /\ ~quotaModal.isSubmitting
  /\ quotaModal.useCase # ""
  /\ quotaModal' = [quotaModal EXCEPT !.isSubmitting = TRUE]
  /\ quotaNet' = Append(quotaNet, [kind |-> "request",
                                   use_case |-> quotaModal.useCase,
                                   email |-> quotaModal.email])
  /\ UNCHANGED quotaData
  /\ QuotaFrame

\* What becomes of the POST /api/request-quota: a 200 with success, an
\* error status with a JSON body, an error status with another body, or no
\* response at all.
QuotaOutcomes == {"accepted", "error_status", "error_not_json", "failed"}

QuotaServed(outcome) ==
  /\ quotaNet # <<>>
  /\ Head(quotaNet).kind = "request"
  /\ quotaNet' = <<[Head(quotaNet) EXCEPT !.kind = outcome]>>
  /\ UNCHANGED <<quotaModal, quotaData>>
  /\ QuotaFrame

\* requestExtraQuota: return response.json(), whatever response.status is.
\* It resolves when the body is JSON and rejects when fetch or json() does.
requestExtraQuota(outcome) == outcome \in {"accepted", "error_status"}

\* The await of handleSubmit settles: Home's onSubmit refetches the quota
\* and setSubmitted(true) when it resolved, console.error when it threw;
\* finally setIsSubmitting(false).
QuotaSettle ==
  /\ quotaNet # <<>>
  /\ Head(quotaNet).kind # "request"
  /\ quotaModal' =
       [quotaModal EXCEPT
          !.submitted = IF requestExtraQuota(Head(quotaNet).kind)
                        THEN TRUE ELSE @,
          !.isSubmitting = FALSE]
  /\ quotaNet' = Tail(quotaNet)
  /\ UNCHANGED quotaData
  /\ QuotaFrame

\* The X, the backdrop and 'Continue': handleClose.
QuotaModal_handleClose ==
  /\ quotaModal.isOpen
  /\ quotaModal' = [quotaModal EXCEPT !.useCase = "", !.email = "",
                                      !.submitted = FALSE, !.isOpen = FALSE]
  /\ UNCHANGED <<quotaNet, quotaData>>
  /\ QuotaFrame

NextQuota ==
  \/ \E remaining \in {0, ExtraBatches} : QuotaFetched(remaining)
  \/ OpenQuotaModal
  \/ \E value \in {"", "creator", "personal"} : setUseCase(value)
  \/ \E value \in {"", "me@example.com"} : setEmail(value)
  \/ QuotaModal_handleSubmit
  \/ \E outcome \in QuotaOutcomes : QuotaServed(outcome)
  \/ QuotaSettle
  \/ QuotaModal_handleClose

SpecQuota == InitHome /\ [][NextQuota]_vars

\* ------------------------------------------------------------------ C28
\* C28: 'You got 5 extra batches!' is shown only after the server accepted
\* the request; on an error status or a failed request submitted stays
\* false and the form remains; isSubmitting is false again once the request
\* has settled; no request is sent while the use case is empty.
C28_SuccessOnlyWhenAccepted ==
  [][/\ (~quotaModal.submitted /\ quotaModal'.submitted)
          => (QuotaSettle /\ Head(quotaNet).kind = "accepted")
     /\ QuotaSettle => ~quotaModal'.isSubmitting
     /\ Len(quotaNet') > Len(quotaNet) => quotaModal.useCase # ""]_vars

\* ========================================================= feedback modal
\* PreviewPanel.tsx's 'Report missed' on two processed images and
\* FeedbackModal.  Every submitFeedback call and every 2 s timer carries
\* sameOpening: whether the modal has not been closed by the user since
\* the submission it belongs to.
FeedbackFrame ==
  /\ BaseFrame
  /\ UNCHANGED <<zipVars, toggleVars, quotaData, quotaModal, quotaNet>>

Stale(entries) ==
  [i \in 1 .. Len(entries) |-> [entries[i] EXCEPT !.sameOpening = FALSE]]

\* Home.handleReportMissed(imageId): setFeedbackImageId, setFeedbackModalOpen.
handleReportMissed(imageId) ==
  /\ ~feedback.isOpen
  /\ feedback' = [feedback EXCEPT !.imageId = imageId, !.isOpen = TRUE]
  /\ UNCHANGED <<feedbackNet, feedbackTimers>>
  /\ FeedbackFrame

\* The two type buttons: setMissedType.
setMissedType(type) ==
  /\ feedback.isOpen
  /\ ~feedback.submitted
  /\ feedback' = [feedback EXCEPT !.missedType = type]
  /\ UNCHANGED <<feedbackNet, feedbackTimers>>
  /\ FeedbackFrame

\* The textarea: setComment(e.target.value).
setComment(value) ==
  /\ feedback.isOpen
  /\ ~feedback.submitted
  /\ feedback' = [feedback EXCEPT !.comment = value]
  /\ UNCHANGED <<feedbackNet, feedbackTimers>>
  /\ FeedbackFrame

\* 'Submit Feedback' (in the footer, rendered while !submitted,
\* disabled={isSubmitting}): FeedbackModal.handleSubmit up to its await.
FeedbackModal_handleSubmit ==
  /\ feedback.isOpen
  /\ ~feedback.submitted
  /\ ~feedback.isSubmitting
  /\ feedback' = [feedback EXCEPT !.isSubmitting = TRUE]
  /\ feedbackNet' = Append(feedbackNet,
                      [kind |-> "request", sameOpening |-> TRUE,
                       missed_type |-> feedback.missedType,
                       comment |-> feedback.comment,
                       image_id |-> feedback.imageId])
  /\ UNCHANGED feedbackTimers
  /\ FeedbackFrame

\* POST /api/feedback is answered: submitFeedback resolves on an ok
\* response and throws otherwise.
FeedbackServed(ok) ==
  /\ feedbackNet # <<>>
  /\ Head(feedbackNet).kind = "request"
  /\ feedbackNet' = <<[Head(feedbackNet) EXCEPT
                         !.kind = IF ok THEN "resolved" ELSE "rejected"]>>
  /\ UNCHANGED <<feedback, feedbackTimers>>
  /\ FeedbackFrame

\* The await of handleSubmit settles: setSubmitted(true) and the 2 s timer
\* when it resolved; finally setIsSubmitting(false).
FeedbackSettle ==
  /\ feedbackNet # <<>>
  /\ Head(feedbackNet).kind # "request"
  /\ LET resolved == Head(feedbackNet).kind = "resolved"
     IN /\ feedback' = [feedback EXCEPT
                          !.submitted = IF resolved THEN TRUE ELSE @,
                          !.isSubmitting = FALSE]
        /\ feedbackTimers' =
             IF resolved
             THEN Append(feedbackTimers,
                         [sameOpening |-> Head(feedbackNet).sameOpening])
             ELSE feedbackTimers
  /\ feedbackNet' = Tail(feedbackNet)
  /\ FeedbackFrame

\* The 2 s timer fires: onClose(), setSubmitted(false), setComment(""),
\* setMissedType("face").
FeedbackTimerFire ==
  /\ feedbackTimers # <<>>
  /\ feedback' = [feedback EXCEPT !.isOpen = FALSE, !.submitted = FALSE,
                                  !.comment = "", !.missedType = "face"]
  /\ feedbackTimers' = Tail(feedbackTimers)
  /\ UNCHANGED feedbackNet
  /\ FeedbackFrame

\* The X, the backdrop and 'Cancel': Home's onClose,
\* setFeedbackModalOpen(false).  Nothing of the modal's own state changes
\* and no timer is cleared.
FeedbackModal_onClose ==
  /\ feedback.isOpen
  /\ feedback' = [feedback EXCEPT !.isOpen = FALSE]
  /\ feedbackNet' = Stale(feedbackNet)
  /\ feedbackTimers' = Stale(feedbackTimers)
  /\ FeedbackFrame

NextFeedback ==
  \/ \E imageId \in PanelImageIds : handleReportMissed(imageId)
  \/ \E type \in {"face", "license_plate"} : setMissedType(type)
  \/ \E value \in {"", "top left corner"} : setComment(value)
  \/ FeedbackModal_handleSubmit
  \/ \E ok \in BOOLEAN : FeedbackServed(ok)
  \/ FeedbackSettle
  \/ FeedbackTimerFire
  \/ FeedbackModal_onClose

SpecFeedback == InitZip /\ [][NextFeedback]_vars

\* ------------------------------------------------------------------ C29
\* C29: an opening of the FeedbackModal is closed only by the user or by
\* the 2 s auto-close timer of a submission made during that same opening;
\* the timer of an earlier opening neither closes the modal nor resets
\* the type and the comment the user has entered.
C29_TimerClosesOwnOpening ==
  [][/\ (feedback.isOpen /\ ~feedback'.isOpen)
          => \/ FeedbackModal_onClose
             \/ FeedbackTimerFire /\ Head(feedbackTimers).sameOpening
     /\ (FeedbackTimerFire /\ feedback.isOpen
           /\ ~Head(feedbackTimers).sameOpening)
          => /\ feedback'.comment = feedback.comment
             /\ feedback'.missedType = feedback.missedType]_vars

\* ------------------------------------------------------------------ C30
\* C30: 'Download All (ZIP)' writes exactly one archive entry per processed
\* result, also when two results have the same original_filename;
\* downloadingZip is false again when the operation ends, by success or by
\* failure; no second build starts while one is running.
C30_OneEntryPerResult ==
  [][/\ ZipSettle(TRUE)
          => Len(exported'[1].entries) = Len(zipBuild[1].results)
     /\ (\E resolved \in BOOLEAN : ZipSettle(resolved)) => ~downloadingZip'
     /\ handleDownloadAll => zipBuild = <<>>]_vars

====
